---- MODULE Spec2Model ----
(***************************************************************************)
(* mod-flow.nvim: cursor-anchored syntax-node resolution and the mods      *)
(* built on it (server/utils.ts, server/index.ts).                         *)
(*                                                                         *)
(* Text is a sequence of one-character strings.  A parsed buffer is an     *)
(* arena of nodes (kind, range, text, parent, children) laid out from a    *)
(* token sequence, so that every range and every text is computed from     *)
(* the characters of the buffer.                                           *)
(***************************************************************************)
EXTENDS Integers, Sequences, FiniteSets, TLC

\* ------------------------------------------------------------------------
\* Bounds of the model
\* ------------------------------------------------------------------------
MaxItems == 3      \* items in a generated list
MaxCands == 2      \* candidates handed to findClosestNodeAtCursor
MaxRequests == 2   \* requests the host sends in one run
MaxLine  == 1      \* last line number of a candidate range
WideCol  == 1001   \* a column on a line longer than 1000 characters

Null == 0
\* Lua's nil as the value of server_job_id: no number jobstart returns
\* (jobstart gives a positive job id, 0 or -1)
nil == -2
NL == "\n"

Max(S) == CHOOSE x \in S : \A y \in S : y <= x
Min(S) == CHOOSE x \in S : \A y \in S : x <= y

\* ------------------------------------------------------------------------
\* Buffer text and positions
\* ------------------------------------------------------------------------
Tok(kind, gap, text) == [kind |-> kind, gap |-> gap, text |-> text]

RECURSIVE SourceText(_)
SourceText(toks) ==
  IF toks = <<>> THEN <<>>
  ELSE SourceText(SubSeq(toks, 1, Len(toks) - 1))
         \o toks[Len(toks)].gap \o toks[Len(toks)].text

TokStartOff(toks, k) == Len(SourceText(SubSeq(toks, 1, k - 1))) + Len(toks[k].gap)

\* zero-based {line, column} of the character offset off in text
PosAt(text, off) ==
  LET nls == {i \in 1..off : text[i] = NL}
  IN [line |-> Cardinality(nls),
      column |-> off - (IF nls = {} THEN 0 ELSE Max(nls))]

\* text.split("\n"): number of line breaks and length of the last line
LineCount(text) == Cardinality({i \in 1..Len(text) : text[i] = NL})
LastLineLen(text) ==
  LET nls == {i \in 1..Len(text) : text[i] = NL}
  IN Len(text) - (IF nls = {} THEN 0 ELSE Max(nls))

\* ------------------------------------------------------------------------
\* Source fragments: tokens plus the inner nodes spanning them
\* ------------------------------------------------------------------------
Leaf(kind, text) == [tokens |-> <<Tok(kind, <<>>, text)>>, spans |-> <<>>]

WithGap(f, gap) ==
  [f EXCEPT !.tokens = [f.tokens EXCEPT ![1] = [f.tokens[1] EXCEPT !.gap = gap]]]

Cat(f, g) ==
  [tokens |-> f.tokens \o g.tokens,
   spans  |-> f.spans \o
              [i \in 1..Len(g.spans) |->
                 [kind |-> g.spans[i].kind,
                  from |-> g.spans[i].from + Len(f.tokens),
                  to   |-> g.spans[i].to + Len(f.tokens)]]]

Wrap(kind, f) ==
  [tokens |-> f.tokens,
   spans  |-> <<[kind |-> kind, from |-> 1, to |-> Len(f.tokens)]>> \o f.spans]

\* ------------------------------------------------------------------------
\* parseAsync: the node arena of a fragment.  Inner nodes are numbered
\* 1..Len(spans) (the root is node 1), token k is node Len(spans) + k.
\* ------------------------------------------------------------------------
NodeFrom(f, n) == IF n <= Len(f.spans) THEN f.spans[n].from ELSE n - Len(f.spans)
NodeTo(f, n)   == IF n <= Len(f.spans) THEN f.spans[n].to ELSE n - Len(f.spans)
NodeIds(f)     == 1..(Len(f.spans) + Len(f.tokens))

RECURSIVE SortByFrom(_, _)
SortByFrom(f, S) ==
  IF S = {} THEN <<>>
  ELSE LET m == CHOOSE x \in S : \A y \in S : NodeFrom(f, x) <= NodeFrom(f, y)
       IN <<m>> \o SortByFrom(f, S \ {m})

\* the arena is built node by node so that every field is computed once
RECURSIVE ParentsUpTo(_, _)
ParentsUpTo(f, n) ==
  LET
      ParentOf(f2, n2) ==
        LET
            Encloses(f1, p, n1) ==
              /\ p <= Len(f1.spans)
              /\ p # n1
              /\ NodeFrom(f1, p) <= NodeFrom(f1, n1)
              /\ NodeTo(f1, n1) <= NodeTo(f1, p)
              /\ \/ NodeFrom(f1, p) # NodeFrom(f1, n1)
                 \/ NodeTo(f1, p) # NodeTo(f1, n1)
                 \/ n1 > Len(f1.spans)
                 \/ p < n1
        IN
            LET encl == {p \in NodeIds(f2) : Encloses(f2, p, n2)}
            IN IF encl = {} THEN Null
               ELSE CHOOSE p \in encl : \A q \in encl \ {p} : Encloses(f2, q, p)
  IN
      IF n = 0 THEN <<>> ELSE Append(ParentsUpTo(f, n - 1), ParentOf(f, n))

RECURSIVE NodesUpTo(_, _, _, _)
NodesUpTo(f, text, parents, n) ==
  LET
      TokEndOff(toks, k) == Len(SourceText(SubSeq(toks, 1, k)))
  IN
      IF n = 0 THEN <<>>
      ELSE LET so == TokStartOff(f.tokens, NodeFrom(f, n))
               eo == TokEndOff(f.tokens, NodeTo(f, n))
           IN Append(NodesUpTo(f, text, parents, n - 1),
                [kind     |-> IF n <= Len(f.spans) THEN f.spans[n].kind
                              ELSE f.tokens[n - Len(f.spans)].kind,
                 range    |-> [start |-> PosAt(text, so), end |-> PosAt(text, eo)],
                 text     |-> SubSeq(text, so + 1, eo),
                 parent   |-> parents[n],
                 children |-> SortByFrom(f, {c \in NodeIds(f) : parents[c] = n})])

Parse(f) ==
  LET total == Len(f.spans) + Len(f.tokens)
  IN NodesUpTo(f, SourceText(f.tokens), ParentsUpTo(f, total), total)

Root == 1

\* ------------------------------------------------------------------------
\* Results and errors (server/index.ts)
\* ------------------------------------------------------------------------
NoResult == [type |-> "none"]

\* class NoMatchError extends ModFlowError: code NO_MATCH
NoMatchError(nodeType) ==
  [type |-> "ModFlowError", code |-> "NO_MATCH",
   message |-> <<"No", nodeType, "found at cursor">>]

\* a plain Error, not a ModFlowError
PlainError(message) == [type |-> "Error", message |-> message]

ModSuccess(mod, rangeStart, rangeEnd, newCursor) ==
  [type |-> "success", mod |-> mod,
   original_range |-> [start |-> rangeStart, end |-> rangeEnd],
   cursor |-> newCursor]

\* ------------------------------------------------------------------------
\* Node locator (server/utils.ts)
\* ------------------------------------------------------------------------
\* the containment test with the end position included
withinNodeInclusive(range, line, column) ==
  LET afterStart == \/ range.start.line < line
                    \/ (range.start.line = line /\ range.start.column <= column)
      beforeEnd  == \/ range.end.line > line
                    \/ (range.end.line = line /\ range.end.column >= column)
  IN afterStart /\ beforeEnd

\* the containment test of findDeepest: start-inclusive, end-exclusive
withinNode(range, line, column) ==
  LET afterStart == \/ range.start.line < line
                    \/ (range.start.line = line /\ range.start.column <= column)
      beforeEnd  == \/ range.end.line > line
                    \/ (range.end.line = line /\ range.end.column > column)
  IN afterStart /\ beforeEnd

RECURSIVE findDeepest(_, _, _, _)
RECURSIVE findDeepestInChildren(_, _, _, _, _)

\* the loop "for (const child of node.children())" of findDeepest, from child i
findDeepestInChildren(tree, children, i, line, column) ==
  IF i > Len(children) THEN Null
  ELSE LET deeper == findDeepest(tree, children[i], line, column)
       IN IF deeper # Null THEN deeper
          ELSE findDeepestInChildren(tree, children, i + 1, line, column)

findDeepest(tree, node, line, column) ==
  IF ~withinNode(tree[node].range, line, column) THEN Null
  ELSE LET deeper == findDeepestInChildren(tree, tree[node].children, 1, line, column)
       IN IF deeper # Null THEN deeper ELSE node

\* findNodeUnderCursor: the node, or the Error it throws
\* (a node_info without cursor makes "const { line, column } = nodeInfo.cursor"
\* throw a TypeError)
findNodeUnderCursor(tree, nodeInfo) ==
  IF "cursor" \notin DOMAIN nodeInfo
  THEN [thrown |-> TRUE,
        error |-> PlainError("Cannot destructure property 'line' of 'nodeInfo.cursor'")]
  ELSE
  LET result == findDeepest(tree, Root, nodeInfo.cursor.line, nodeInfo.cursor.column)
  IN IF result = Null
     THEN [thrown |-> TRUE, error |-> PlainError("No node found at cursor")]
     ELSE [thrown |-> FALSE, node |-> result]

RECURSIVE findAncestorOfKind(_, _, _)
findAncestorOfKind(tree, current, kinds) ==
  IF current = Null THEN Null
  ELSE IF tree[current].kind \in kinds THEN current
  ELSE findAncestorOfKind(tree, tree[current].parent, kinds)

LIST_PARENT_KINDS ==
  {"arguments", "formal_parameters", "binary_expression", "ternary_expression",
   "object_pattern", "intersection_type", "union_type"}

findListParentAtCursor(tree, nodeInfo) ==
  LET found == findNodeUnderCursor(tree, nodeInfo)
  IN IF found.thrown THEN found
     ELSE [thrown |-> FALSE,
           node |-> findAncestorOfKind(tree, found.node, LIST_PARENT_KINDS)]

\* ------------------------------------------------------------------------
\* move_left / move_right (server/index.ts)
\* ------------------------------------------------------------------------
\* cursorContains: start-inclusive and end-inclusive
cursorContains(range, line, column) ==
  LET afterStart == \/ range.start.line < line
                    \/ (range.start.line = line /\ range.start.column <= column)
      beforeEnd  == \/ range.end.line > line
                    \/ (range.end.line = line /\ range.end.column >= column)
  IN afterStart /\ beforeEnd

calculateCursorOffset(line, column, itemStart) ==
  LET lineOffset == line - itemStart.line
  IN [lineOffset |-> lineOffset,
      colOffset  |-> IF lineOffset = 0 THEN column - itemStart.column ELSE column]

applyCursorOffset(newStart, offset) ==
  [line   |-> newStart.line + offset.lineOffset,
   column |-> IF offset.lineOffset = 0
              THEN newStart.column + offset.colOffset
              ELSE offset.colOffset]

\* the cursor after a swap that puts `moved` and `sepLen` characters in front of
\* the place `anchor`, for a cursor at cursorOffset from the token it was on
cursorAfter(anchor, moved, sepLen, cursorOffset) ==
  IF LineCount(moved) = 0
  THEN [line   |-> anchor.line + cursorOffset.lineOffset,
        column |-> IF cursorOffset.lineOffset = 0
                   THEN anchor.column + LastLineLen(moved) + sepLen
                          + cursorOffset.colOffset
                   ELSE cursorOffset.colOffset]
  ELSE [line   |-> anchor.line + LineCount(moved) + cursorOffset.lineOffset,
        column |-> IF cursorOffset.lineOffset = 0
                   THEN LastLineLen(moved) + sepLen + cursorOffset.colOffset
                   ELSE cursorOffset.colOffset]

SP == <<" ">>

\* the operands left in place
binaryModUnswapped(left, operator, right) ==
  left.text \o SP \o operator.text \o SP \o right.text

\* `${right.text()} ${operator.text()} ${left.text()}`
binaryMod(left, operator, right) ==
  right.text \o SP \o operator.text \o SP \o left.text

\* the branches left in place
ternaryModUnswapped(condition, questionMark, consequent, colonOp, alternate) ==
  condition.text \o SP \o questionMark.text \o SP \o consequent.text
    \o SP \o colonOp.text \o SP \o alternate.text

\* `${condition.text()} ${questionMark.text()} ${alternate.text()} ${colonOp.text()} ${consequent.text()}`
ternaryMod(condition, questionMark, consequent, colonOp, alternate) ==
  condition.text \o SP \o questionMark.text \o SP \o alternate.text
    \o SP \o colonOp.text \o SP \o consequent.text

\* `${first.text()}, ${second.text()}`
listMod(first, second) ==
  LET
      COMMA_SP == <<",", " ">>
  IN
      first.text \o COMMA_SP \o second.text

\* the branch parentKind === "binary_expression"
moveBinary(tree, listParent, line, column, direction) ==
  LET children == tree[listParent].children
  IN IF Len(children) < 3 THEN NoMatchError("binary operand")
     ELSE
     LET left       == tree[children[1]]
         operator   == tree[children[2]]
         right      == tree[children[3]]
         onLeft     == cursorContains(left.range, line, column)
         onRight    == cursorContains(right.range, line, column)
         onOperator == cursorContains(operator.range, line, column)
         newCursor  ==
           IF onOperator
           THEN cursorAfter(left.range.start, right.text, 1,
                            calculateCursorOffset(line, column, operator.range.start))
           ELSE IF onRight
           THEN applyCursorOffset(left.range.start,
                            calculateCursorOffset(line, column, right.range.start))
           ELSE cursorAfter(left.range.start, right.text, Len(operator.text) + 2,
                            calculateCursorOffset(line, column, left.range.start))
     IN IF ~onLeft /\ ~onRight /\ ~onOperator THEN NoMatchError("operand")
        ELSE IF /\ ~onOperator
                /\ \/ (direction = "left" /\ onLeft)
                   \/ (direction = "right" /\ onRight)
        THEN NoMatchError(IF direction = "left" THEN "previous operand"
                                                ELSE "next operand")
        ELSE ModSuccess(binaryMod(left, operator, right),
                        tree[listParent].range.start, tree[listParent].range.end,
                        newCursor)

\* the branch parentKind === "ternary_expression"
moveTernary(tree, listParent, line, column, direction) ==
  LET children == tree[listParent].children
  IN IF Len(children) < 5 THEN NoMatchError("ternary branch")
     ELSE
     LET condition      == tree[children[1]]
         questionMark   == tree[children[2]]
         consequent     == tree[children[3]]
         colonOp        == tree[children[4]]
         alternate      == tree[children[5]]
         onCondition    == cursorContains(condition.range, line, column)
         onQuestionMark == cursorContains(questionMark.range, line, column)
         onConsequent   == cursorContains(consequent.range, line, column)
         onColon        == cursorContains(colonOp.range, line, column)
         onAlternate    == cursorContains(alternate.range, line, column)
         newCursor      ==
           IF onColon
           THEN cursorAfter(consequent.range.start, alternate.text, 1,
                            calculateCursorOffset(line, column, colonOp.range.start))
           ELSE IF onAlternate
           THEN applyCursorOffset(consequent.range.start,
                            calculateCursorOffset(line, column, alternate.range.start))
           ELSE cursorAfter(consequent.range.start, alternate.text, 3,
                            calculateCursorOffset(line, column, consequent.range.start))
     IN IF onCondition \/ onQuestionMark
        THEN NoMatchError("ternary branch (cursor on condition)")
        ELSE IF ~onConsequent /\ ~onColon /\ ~onAlternate
        THEN NoMatchError("ternary branch")
        ELSE IF /\ ~onColon
                /\ \/ (direction = "left" /\ onConsequent)
                   \/ (direction = "right" /\ onAlternate)
        THEN NoMatchError(IF direction = "left" THEN "previous branch"
                                                ELSE "next branch")
        ELSE ModSuccess(ternaryMod(condition, questionMark, consequent, colonOp, alternate),
                        tree[listParent].range.start, tree[listParent].range.end,
                        newCursor)

\* listParent.children().filter(kind is not "," "(" ")")
listItems(tree, listParent) ==
  SelectSeq(tree[listParent].children,
            LAMBDA child : tree[child].kind \notin {",", "(", ")"})

\* items.findIndex(item => cursorContains(item.range(), line, column)), 1-based;
\* 0 when no item qualifies
findIndex(tree, items, line, column) ==
  LET hits == {i \in 1..Len(items) : cursorContains(tree[items[i]].range, line, column)}
  IN IF hits = {} THEN 0 ELSE CHOOSE i \in hits : \A j \in hits : i <= j

\* the comma-separated list path
moveListItem(tree, listParent, line, column, direction) ==
  LET items        == listItems(tree, listParent)
      currentIndex == findIndex(tree, items, line, column)
  IN IF currentIndex = 0 THEN NoMatchError("item")
     ELSE IF direction = "left"
     THEN IF currentIndex = 1 THEN NoMatchError("previous item")
          ELSE LET prevItem == tree[items[currentIndex - 1]]
                   currItem == tree[items[currentIndex]]
               IN ModSuccess(listMod(currItem, prevItem),
                             prevItem.range.start, currItem.range.end,
                             applyCursorOffset(prevItem.range.start,
                               calculateCursorOffset(line, column, currItem.range.start)))
     ELSE IF currentIndex >= Len(items) THEN NoMatchError("next item")
          ELSE LET currItem == tree[items[currentIndex]]
                   nextItem == tree[items[currentIndex + 1]]
               IN ModSuccess(listMod(nextItem, currItem),
                             currItem.range.start, nextItem.range.end,
                             cursorAfter(currItem.range.start, nextItem.text, 2,
                               calculateCursorOffset(line, column, currItem.range.start)))

handleMoveNode(tree, nodeInfo, direction) ==
  LET found == findListParentAtCursor(tree, nodeInfo)
  IN IF found.thrown THEN found.error
     ELSE IF found.node = Null THEN NoMatchError("swappable expression")
     ELSE LET line       == nodeInfo.cursor.line
              column     == nodeInfo.cursor.column
              parentKind == tree[found.node].kind
          IN IF parentKind = "binary_expression"
             THEN moveBinary(tree, found.node, line, column, direction)
             ELSE IF parentKind = "ternary_expression"
             THEN moveTernary(tree, found.node, line, column, direction)
             ELSE moveListItem(tree, found.node, line, column, direction)

handleMoveLeft(tree, nodeInfo) == handleMoveNode(tree, nodeInfo, "left")
handleMoveRight(tree, nodeInfo) == handleMoveNode(tree, nodeInfo, "right")

\* ------------------------------------------------------------------------
\* Buffers the editor can hold: statements laid out with every choice of
\* whitespace between their tokens
\* ------------------------------------------------------------------------
Ident(kind, text) == Leaf(kind, text)
Punct(p) == Leaf(p, <<p>>)

Letters == <<"a", "b", "c", "d", "e">>
ItemText(i) == IF i % 2 = 0 THEN <<Letters[i], Letters[i]>> ELSE <<Letters[i]>>

Gaps == {<<>>, <<" ">>, <<NL, " ">>}
Pads == {<<>>, <<" ">>}

Statement(expr) ==
  Wrap("program", Wrap("expression_statement", Cat(expr, Punct(";"))))

Binary(left, g1, op, g2, right) ==
  LET
      OperatorToken(op1) == IF op1 = "&&" THEN Leaf("&&", <<"&", "&">>) ELSE Punct(op1)
  IN
      Wrap("binary_expression",
           Cat(Cat(left, WithGap(OperatorToken(op), g1)), WithGap(right, g2)))

Ternary(cond, g1, cons, g2, g3, alt, g4) ==
  Wrap("ternary_expression",
       Cat(Cat(Cat(Cat(cond, WithGap(Punct("?"), g1)), WithGap(cons, g2)),
               WithGap(Punct(":"), g3)), WithGap(alt, g4)))

\* items 1..n separated by "," tokens, the first after pad, the others after sep
RECURSIVE CommaItems(_, _, _, _)
CommaItems(itemKind, n, pad, sep) ==
  IF n = 1 THEN WithGap(Ident(itemKind, ItemText(1)), pad)
  ELSE Cat(Cat(CommaItems(itemKind, n - 1, pad, sep), Punct(",")),
           WithGap(Ident(itemKind, ItemText(n)), sep))

CommaList(kind, open, close, itemKind, n, pad, sep) ==
  Wrap(kind,
       IF n = 0 THEN Cat(Punct(open), Punct(close))
       ELSE Cat(Cat(Punct(open), CommaItems(itemKind, n, pad, sep)),
                WithGap(Punct(close), pad)))

\* A | B | C parses left-nested: ((A | B) | C)
RECURSIVE TypeList(_, _, _, _, _)
TypeList(kind, op, n, pad, sep) ==
  IF n = 1 THEN Ident("type_identifier", ItemText(1))
  ELSE Wrap(kind,
            Cat(Cat(TypeList(kind, op, n - 1, pad, sep), WithGap(Punct(op), pad)),
                WithGap(Ident("type_identifier", ItemText(n)), sep)))

CallStatement(n, pad, sep) ==
  Statement(Wrap("call_expression",
                 Cat(Ident("identifier", <<"f">>),
                     CommaList("arguments", "(", ")", "identifier", n, pad, sep))))

FunctionDeclaration(n, pad, sep) ==
  Wrap("program",
    Wrap("function_declaration",
      Cat(Cat(Cat(Leaf("function", <<"f", "u", "n", "c", "t", "i", "o", "n">>),
                  WithGap(Ident("identifier", <<"f">>), <<" ">>)),
              CommaList("formal_parameters", "(", ")", "identifier", n, pad, sep)),
          Wrap("statement_block", Cat(Punct("{"), Punct("}"))))))

Destructuring(n, pad, sep) ==
  Wrap("program",
    Wrap("lexical_declaration",
      Cat(Leaf("let", <<"l", "e", "t">>),
          Wrap("variable_declarator",
            Cat(Cat(WithGap(CommaList("object_pattern", "{", "}",
                              "shorthand_property_identifier_pattern", n, pad, sep),
                            <<" ">>),
                    Punct("=")),
                Ident("identifier", <<"x">>))))))

Buffers ==
  LET
      BinaryBuffers ==
        {WithGap(Statement(Binary(Ident("identifier", ItemText(1)), g1, op, g2,
                                  Ident("identifier", ItemText(2)))), lead) :
           g1 \in Gaps, g2 \in Gaps, op \in {"+", "&&"}, lead \in Pads}
      TernaryBuffers ==
        {Statement(Ternary(Ident("identifier", ItemText(1)), g[1],
                           Ident("identifier", ItemText(2)), g[2], g[3],
                           Ident("identifier", ItemText(3)), g[4])) :
           g \in [1..4 -> Pads] \cup {[i \in 1..4 |-> <<NL, " ">>]}}
      ListBuffers ==
        LET
            TypeAlias(kind, op, n, pad, sep) ==
              Wrap("program",
                Wrap("type_alias_declaration",
                  Cat(Cat(Cat(Leaf("type", <<"t", "y", "p", "e">>),
                              WithGap(Ident("type_identifier", <<"T">>), <<" ">>)),
                          Punct("=")),
                      TypeList(kind, op, n, pad, sep))))
        IN
            UNION {
              {CallStatement(n, pad, sep), FunctionDeclaration(n, pad, sep),
               Destructuring(n, pad, sep)} :
                 n \in 0..MaxItems, pad \in Pads, sep \in Gaps}
            \cup
            {TypeAlias(k[1], k[2], n, pad, sep) :
               k \in {<<"union_type", "|">>, <<"intersection_type", "&">>},
               n \in 1..MaxItems, pad \in Pads, sep \in Gaps}
      \* operands that are themselves list parents
      NestedBuffers ==
        {Statement(Binary(Binary(Ident("identifier", ItemText(1)), g, "+", g,
                                 Ident("identifier", ItemText(2))),
                          g, "+", g, Ident("identifier", ItemText(3)))) : g \in Pads}
        \cup
        {Statement(Wrap("call_expression",
             Cat(Ident("identifier", <<"f">>),
                 Wrap("arguments",
                   Cat(Cat(Cat(Cat(Punct("("),
                         Binary(Ident("identifier", ItemText(1)), g, "+", g,
                                Ident("identifier", ItemText(2)))),
                         Punct(",")),
                         WithGap(Ternary(Ident("identifier", ItemText(1)), g,
                                         Ident("identifier", ItemText(2)), g, g,
                                         Ident("identifier", ItemText(3)), g), g)),
                       Punct(")")))))) : g \in Pads}
      \* call arguments that span two lines: a, line break, .b
      MultiLineBuffers ==
        LET member == Wrap("member_expression",
                        Cat(Cat(Ident("identifier", <<"a">>),
                                WithGap(Punct("."), <<NL>>)),
                            Ident("property_identifier", <<"b">>)))
            args   == {member, Ident("identifier", <<"c">>)}
        IN {Statement(Wrap("call_expression",
              Cat(Ident("identifier", <<"f">>),
                  Wrap("arguments",
                    Cat(Cat(Cat(Cat(Punct("("), x), Punct(",")), WithGap(y, sep)),
                        Punct(")")))))) :
              x \in args, y \in args, sep \in Pads}
  IN
      BinaryBuffers \cup TernaryBuffers \cup ListBuffers \cup NestedBuffers
        \cup MultiLineBuffers

\* where the normal-mode cursor can be: on a character of a line, or at
\* column 0 of an empty line
CursorPositions(text) ==
  {PosAt(text, off) : off \in {o \in 0..(Len(text) - 1) :
                                 \/ text[o + 1] # NL
                                 \/ o = 0
                                 \/ text[o] = NL}}

\* ------------------------------------------------------------------------
\* Applying a result to the buffer and parsing the buffer again
\* ------------------------------------------------------------------------
\* the character offset of the zero-based {line, column} pos in text
RECURSIVE LineStart(_, _, _)
LineStart(text, line, off) ==
  IF line = 0 THEN off
  ELSE IF off >= Len(text) THEN Len(text)
  ELSE LineStart(text, IF text[off + 1] = NL THEN line - 1 ELSE line, off + 1)

OffsetOf(text, pos) == LineStart(text, pos.line, 0) + pos.column

WordChars ==
  {"a", "b", "c", "d", "e", "f", "g", "h", "i", "j", "k", "l", "m", "n", "o", "p",
   "q", "r", "s", "t", "u", "v", "w", "x", "y", "z", "T"}

\* the tokens of text: the white space in front of each and its characters.
\* A token is a run of word characters, "&&", or one other character.
RECURSIVE Lex(_, _, _)
RECURSIVE LexWord(_, _, _, _)

LexWord(text, i, gap, word) ==
  IF i <= Len(text) /\ text[i] \in WordChars
  THEN LexWord(text, i + 1, gap, Append(word, text[i]))
  ELSE <<[gap |-> gap, text |-> word]>> \o Lex(text, i, <<>>)

Lex(text, i, gap) ==
  IF i > Len(text) THEN <<>>
  ELSE IF text[i] \in {" ", NL} THEN Lex(text, i + 1, Append(gap, text[i]))
  ELSE IF text[i] \in WordChars THEN LexWord(text, i, gap, <<>>)
  ELSE IF text[i] = "&" /\ i < Len(text) /\ text[i + 1] = "&"
  THEN <<[gap |-> gap, text |-> <<"&", "&">>]>> \o Lex(text, i + 2, <<>>)
  ELSE <<[gap |-> gap, text |-> <<text[i]>>]>> \o Lex(text, i + 1, <<>>)

\* the buffer after the host applied a success result
applyResult(f, result) ==
  LET
      \* nvim_buf_set_text(bufnr, start.line, start.column, end.line, end.column, mod)
      SetText(text, range, mod) ==
        SubSeq(text, 1, OffsetOf(text, range.start)) \o mod
          \o SubSeq(text, OffsetOf(text, range.end) + 1, Len(text))
      \* the fragment of the edited text.  A swap of two items of one kind leaves
      \* the shape of the tree and the kind of every token as they were: the tokens
      \* are read from the new text.
      Reparse(f1, text) ==
        LET lexed == Lex(text, 1, <<>>)
        IN [tokens |-> [k \in 1..Len(lexed) |->
                          Tok(IF k <= Len(f1.tokens) THEN f1.tokens[k].kind ELSE "ERROR",
                              lexed[k].gap, lexed[k].text)],
            spans  |-> f1.spans]
  IN
      Reparse(f, SetText(SourceText(f.tokens), result.original_range, result.mod))

\* ------------------------------------------------------------------------
\* findClosestNodeAtCursor (server/utils.ts)
\* ------------------------------------------------------------------------
\* the metric (end.line - start.line) * 1000 + (end.column - start.column)
rangeSize(range) ==
  (range.end.line - range.start.line) * 1000 + (range.end.column - range.start.column)

\* withinLineRange && withinStartCol && withinEndCol
withinMatch(range, cursor) ==
  LET withinLineRange == cursor.line >= range.start.line /\ cursor.line <= range.end.line
      withinStartCol  == cursor.line > range.start.line \/ cursor.column >= range.start.column
      withinEndCol    == cursor.line < range.end.line \/ cursor.column <= range.end.column
  IN withinLineRange /\ withinStartCol /\ withinEndCol

findClosestNodeAtCursor(ms, cursor) ==
  LET
      \* the loop over matches from index i; smallestRange is <<>> for Infinity.
      \* The result is the index of the closest match, Null for undefined.
      RECURSIVE closestFrom(_, _, _, _, _)
      closestFrom(ms1, i, cursor1, closestNode, smallestRange) ==
        IF i > Len(ms1) THEN closestNode
        ELSE IF /\ withinMatch(ms1[i], cursor1)
                /\ (smallestRange = <<>> \/ rangeSize(ms1[i]) < smallestRange[1])
             THEN closestFrom(ms1, i + 1, cursor1, i, <<rangeSize(ms1[i])>>)
             ELSE closestFrom(ms1, i + 1, cursor1, closestNode, smallestRange)
  IN
      closestFrom(ms, 1, cursor, Null, <<>>)

\* ------------------------------------------------------------------------
\* debug_node_under_cursor (server/index.ts)
\* ------------------------------------------------------------------------
RECURSIVE printNodeTree(_, _, _, _, _)
RECURSIVE printChildren(_, _, _, _, _, _)

printChildren(tree, children, i, depth, maxDepth, targetNode) ==
  IF i > Len(children) THEN <<>>
  ELSE (IF depth < maxDepth
        THEN printNodeTree(tree, children[i], depth + 1, maxDepth, targetNode)
        ELSE <<>>)
       \o printChildren(tree, children, i + 1, depth, maxDepth, targetNode)

\* one record per printed line: its indentation depth, the node kind and
\* whether the kind is wrapped in <<< >>>
printNodeTree(tree, node, depth, maxDepth, targetNode) ==
  IF depth > maxDepth THEN <<>>
  ELSE <<[indent |-> depth, kind |-> tree[node].kind,
          isTarget |-> tree[node].range = tree[targetNode].range]>>
       \o printChildren(tree, tree[node].children, 1, depth, maxDepth, targetNode)

DebugError(message) == [type |-> "ModFlowError", code |-> "DEBUG", message |-> message]

\* the walk up does not stop below the whole-file root
RECURSIVE contextRootToTop(_, _, _)
contextRootToTop(tree, contextRoot, i) ==
  IF i >= 3 THEN contextRoot
  ELSE LET parent == tree[contextRoot].parent
       IN IF parent # Null
          THEN contextRootToTop(tree, parent, i + 1)
          ELSE contextRoot

\* the loop "for (let i = 0; i < 3; i++)" walking up from contextRoot
RECURSIVE contextRootFrom(_, _, _)
contextRootFrom(tree, contextRoot, i) ==
  IF i >= 3 THEN contextRoot
  ELSE LET parent == tree[contextRoot].parent
       IN IF parent # Null /\ tree[parent].kind \notin {"source_file", "program"}
          THEN contextRootFrom(tree, parent, i + 1)
          ELSE contextRoot

handleDebugNodeUnderCursor(tree, nodeInfo) ==
  LET found == findNodeUnderCursor(tree, nodeInfo)
  IN IF found.thrown THEN found.error
     ELSE DebugError(printNodeTree(tree, contextRootFrom(tree, found.node, 0), 0, 3,
                                   found.node))

\* ------------------------------------------------------------------------
\* The server's notification handler (server/index.ts, main)
\* ------------------------------------------------------------------------
\* Object.keys(modMap)
modNames == <<"debug_node_under_cursor", "move_left", "move_right">>

modMap(method, tree, nodeInfo) ==
  CASE method = "debug_node_under_cursor" -> handleDebugNodeUnderCursor(tree, nodeInfo)
    [] method = "move_left"               -> handleMoveLeft(tree, nodeInfo)
    [] method = "move_right"              -> handleMoveRight(tree, nodeInfo)

\* a list that leaves out the first registered name
handleListModsTail == [type |-> "mods", mods |-> Tail(modNames)]

handleListMods == [type |-> "mods", mods |-> modNames]

Range(seq) == {seq[i] : i \in 1..Len(seq)}

VARIABLES
  buffer,     \* the lines of the current buffer, as the fragment they parse to
  phase,      \* "idle", "requested", "served"
  request,    \* the notification sent to the server: method and node_info
  response,   \* the result handed to handle_response, NoResult if none
  log,        \* messages written by nvim.logger.error
  located,    \* the nodes the mod handler resolved: deepest node and list parent
  matches,    \* candidate ranges handed to findClosestNodeAtCursor
  point,      \* the cursor handed to findClosestNodeAtCursor
  closest,    \* its result: an index of matches, Null for undefined, -1 before the call
  origin,     \* the buffer and cursor a sequence of moves started from
  server_job_id,     \* what jobstart returned for the server, nil when there is none
  restart_pending,   \* start() was called while a job ran and waits for its exit
  jobs,              \* the jobs that have not exited: id -> "running" or "stopping"
  launches,          \* the number of jobstart calls so far
  request_id,        \* the id given to the last request
  pending_requests,  \* request id -> the callback waiting for its response
  inbox,             \* notifications sent to the server and not yet handled
  scheduled,         \* callbacks queued with vim.schedule
  menu,              \* the open vim.ui.select menus
  sent,              \* every notification sent so far
  delivered          \* every handle_response call so far

hostVars == <<server_job_id, restart_pending, jobs, launches, request_id,
              pending_requests, inbox, scheduled, menu, sent, delivered>>

vars == <<buffer, phase, request, response, log, located, matches, point, closest,
          origin, hostVars>>

\* the host before setup() started a server
HostIdle ==
  /\ server_job_id = nil
  /\ restart_pending = FALSE
  /\ jobs = <<>>
  /\ launches = 0
  /\ request_id = 0
  /\ pending_requests = <<>>
  /\ inbox = {}
  /\ scheduled = <<>>
  /\ menu = <<>>
  /\ sent = <<>>
  /\ delivered = <<>>

NotLocated == [node |-> Null, listParent |-> Null]

\* what the handler of `method` resolves before it acts: every handler starts
\* with findNodeUnderCursor, the move handlers with findListParentAtCursor
locate(method, tree, nodeInfo) ==
  LET found == findNodeUnderCursor(tree, nodeInfo)
  IN IF found.thrown THEN NotLocated
     ELSE [node |-> found.node,
           listParent |-> IF method \in {"move_left", "move_right"}
                          THEN findListParentAtCursor(tree, nodeInfo).node
                          ELSE Null]

NoOrigin == [buffer |-> <<>>, point |-> <<>>]
NoRequest == [method |-> "", node_info |-> [present |-> FALSE]]
NoNodeInfo == [present |-> FALSE]
NodeInfoAt(pos) == [present |-> TRUE, cursor |-> pos]

Init ==
  /\ buffer \in Buffers
  /\ phase = "idle"
  /\ request = NoRequest
  /\ response = NoResult
  /\ log = <<>>
  /\ located = NotLocated
  /\ matches = <<>>
  /\ point = [line |-> 0, column |-> 0]
  /\ closest = -1
  /\ origin = NoOrigin
  /\ HostIdle

\* the host sends rpcnotify(method, request_id, {node_info = ...})
Request(method, nodeInfo) ==
  /\ phase = "idle"
  /\ phase' = "requested"
  /\ request' = [method |-> method, node_info |-> nodeInfo]
  /\ UNCHANGED <<buffer, response, log, located, matches, point, closest, origin>>
  /\ UNCHANGED hostVars

\* getListModsHandler(method) is set
ServeListMods ==
  /\ phase = "requested"
  /\ request.method = "list_mods"
  /\ response' = handleListMods
  /\ phase' = "served"
  /\ UNCHANGED <<buffer, request, log, located, matches, point, closest, origin>>
  /\ UNCHANGED hostVars

\* getModHandler(method) is set.  A missing node_info and an error that is not
\* a ModFlowError both reach the outer catch, which only logs; a result and a
\* ModFlowError are handed to handle_response.
ServeMod ==
  /\ phase = "requested"
  /\ request.method \in Range(modNames)
  /\ LET result == IF ~request.node_info.present
                   THEN NoMatchError("cursor position")
                   ELSE modMap(request.method, Parse(buffer), request.node_info)
     IN IF ~request.node_info.present \/ result.type = "Error"
        THEN /\ log' = Append(log, result.message)
             /\ response' = response
        ELSE /\ response' = result
             /\ log' = log
  /\ located' = IF request.node_info.present
                THEN locate(request.method, Parse(buffer), request.node_info)
                ELSE NotLocated
  /\ phase' = "served"
  /\ UNCHANGED <<buffer, request, matches, point, closest, origin>>
  /\ UNCHANGED hostVars

\* neither handler is set: the notification is dropped
ServeUnknown ==
  /\ phase = "requested"
  /\ request.method \notin Range(modNames) \cup {"list_mods"}
  /\ phase' = "served"
  /\ UNCHANGED <<buffer, request, response, log, located, matches, point, closest, origin>>
  /\ UNCHANGED hostVars

Next ==
  \/ \E method \in Range(modNames) \cup {"list_mods", "no_such_mod"} :
       \E nodeInfo \in {NoNodeInfo} \cup
            {NodeInfoAt(pos) : pos \in CursorPositions(SourceText(buffer.tokens))} :
         Request(method, nodeInfo)
  \/ ServeListMods
  \/ ServeMod
  \/ ServeUnknown

Spec == Init /\ [][Next]_vars

\* ------------------------------------------------------------------------
\* findClosestNodeAtCursor applied to bounded candidate lists
\* ------------------------------------------------------------------------
ClosestColumns == {0, WideCol, WideCol + 2}
ClosestPositions == [line : 0..MaxLine, column : ClosestColumns]

PosLE(a, b) == a.line < b.line \/ (a.line = b.line /\ a.column <= b.column)
PosLT(a, b) == a.line < b.line \/ (a.line = b.line /\ a.column < b.column)

InitClosest ==
  LET
      \* candidates are nodes found by kind: their ranges are not empty
      ClosestRanges == {r \in [start : ClosestPositions, end : ClosestPositions] :
                          PosLT(r.start, r.end)}
  IN
      /\ buffer = Statement(Ident("identifier", ItemText(1)))
      /\ phase = "idle"
      /\ request = NoRequest
      /\ response = NoResult
      /\ log = <<>>
      /\ located = NotLocated
      /\ matches \in UNION {[1..n -> ClosestRanges] : n \in 0..MaxCands}
      /\ point \in ClosestPositions
      /\ closest = -1
      /\ origin = NoOrigin
      /\ HostIdle

ApplyClosest ==
  /\ closest = -1
  /\ closest' = findClosestNodeAtCursor(matches, point)
  /\ UNCHANGED <<buffer, phase, request, response, log, located, matches, point, origin>>
  /\ UNCHANGED hostVars

NextClosest == ApplyClosest

SpecClosest == InitClosest /\ [][NextClosest]_vars

\* ------------------------------------------------------------------------
\* A move applied to the buffer and followed by the opposite move at the
\* cursor the first one returned
\* ------------------------------------------------------------------------

InitRound ==
  LET
      RoundBuffers ==
        UNION {{CallStatement(n, pad, sep), FunctionDeclaration(n, pad, sep),
                Destructuring(n, pad, sep)} :
                  n \in 3..MaxItems, pad \in Pads, sep \in Gaps}
  IN
      /\ buffer \in RoundBuffers
      /\ point \in CursorPositions(SourceText(buffer.tokens))
      /\ origin = [buffer |-> buffer, point |-> point]
      /\ phase = "idle"
      /\ request = NoRequest
      /\ response = NoResult
      /\ log = <<>>
      /\ located = NotLocated
      /\ matches = <<>>
      /\ closest = -1
      /\ HostIdle

\* the handler runs on the buffer; a success result is applied with
\* nvim_buf_set_text and the cursor is put where the result says
Move(method, next) ==
  LET nodeInfo == NodeInfoAt(point)
      result   == modMap(method, Parse(buffer), nodeInfo)
  IN /\ request' = [method |-> method, node_info |-> nodeInfo]
     /\ response' = result
     /\ located' = locate(method, Parse(buffer), nodeInfo)
     /\ IF result.type = "success"
        THEN /\ buffer' = applyResult(buffer, result)
             /\ point' = result.cursor
             /\ phase' = next
        ELSE /\ phase' = "failed"
             /\ UNCHANGED <<buffer, point>>
     /\ UNCHANGED <<log, matches, closest, origin>>
     /\ UNCHANGED hostVars

MoveThere(method) ==
  /\ phase = "idle"
  /\ Move(method, "there")

MoveBack ==
  /\ phase = "there"
  /\ Move(IF request.method = "move_left" THEN "move_right" ELSE "move_left", "back")

NextRound ==
  \/ \E method \in {"move_left", "move_right"} : MoveThere(method)
  \/ MoveBack

SpecRound == InitRound /\ [][NextRound]_vars

\* ------------------------------------------------------------------------
\* delete_function on the window cursor (the server revision whose handlers
\* take a cursor)
\* ------------------------------------------------------------------------
\* root.findAll(kind(lang, k)): the nodes of that kind, outer before inner
findAll(tree, k) ==
  SelectSeq([n \in 1..Len(tree) |-> n], LAMBDA n : tree[n].kind = k)

\* source.replace(pat, rep): the first occurrence is replaced
replace(text, pat, rep) ==
  LET
      \* the first index at which pat1 occurs in text1, 0 if it does not occur
      indexOf(text1, pat1) ==
        LET hits == {i \in 1..(Len(text1) - Len(pat1) + 1) :
                       SubSeq(text1, i, i + Len(pat1) - 1) = pat1}
        IN IF hits = {} THEN 0 ELSE CHOOSE i \in hits : \A j \in hits : i <= j
  IN
      LET i == indexOf(text, pat)
      IN IF i = 0 THEN text
         ELSE SubSeq(text, 1, i - 1) \o rep \o SubSeq(text, i + Len(pat), Len(text))

NotFound(cursor) == [type |-> "notfound", found |-> FALSE, cursor |-> cursor]

handleDeleteFunction(tree, source, cursor) ==
  LET functionDeclarations == findAll(tree, "function_declaration")
      closestFunction ==
        findClosestNodeAtCursor(
          [i \in 1..Len(functionDeclarations) |-> tree[functionDeclarations[i]].range],
          cursor)
  IN IF closestFunction # Null
     THEN LET node == tree[functionDeclarations[closestFunction]]
          IN [type |-> "success", found |-> TRUE, mod |-> <<>>,
              original_range |-> node.range,
              cursor |-> cursor,
              source |-> replace(source, node.text, <<>>)]
     ELSE NotFound(cursor)

\* function <name>() { <body> }
FunctionNamed(name, g, body) ==
  LET
      KeywordFunction == Leaf("function", <<"f", "u", "n", "c", "t", "i", "o", "n">>)
  IN
      Wrap("function_declaration",
        Cat(Cat(Cat(KeywordFunction, WithGap(Ident("identifier", <<name>>), <<" ">>)),
                Wrap("formal_parameters", Cat(Punct("("), Punct(")")))),
            Wrap("statement_block",
                 IF body = <<>> THEN Cat(Punct("{"), WithGap(Punct("}"), g))
                 ELSE Cat(Cat(Punct("{"), WithGap(body[1], g)), WithGap(Punct("}"), g)))))

ExpressionStatement(name) ==
  Wrap("expression_statement", Cat(Ident("identifier", <<name>>), Punct(";")))

InitCursor ==
  LET
      FunctionBuffers ==
        UNION {
          {WithGap(Wrap("program", FunctionNamed("f", g, <<>>)), lead),
           WithGap(Wrap("program", FunctionNamed("f", g, <<FunctionNamed("g", g, <<>>)>>)), lead),
           WithGap(Wrap("program", Cat(FunctionNamed("f", <<>>, <<>>),
                                       WithGap(FunctionNamed("g", <<>>, <<>>), g))), lead),
           WithGap(Wrap("program", Cat(ExpressionStatement("a"),
                                       WithGap(FunctionNamed("f", <<>>, <<>>), g))), lead),
           WithGap(Wrap("program", ExpressionStatement("a")), lead),
           \* the same function twice, a statement between the two
           WithGap(Wrap("program",
                        Cat(Cat(FunctionNamed("f", <<>>, <<>>),
                                WithGap(ExpressionStatement("a"), g)),
                            WithGap(FunctionNamed("f", <<>>, <<>>), g))), lead)} :
             g \in Gaps, lead \in Pads}
  IN
      /\ buffer \in FunctionBuffers
      /\ point \in CursorPositions(SourceText(buffer.tokens))
      /\ phase = "idle"
      /\ request = NoRequest
      /\ response = NoResult
      /\ log = <<>>
      /\ located = NotLocated
      /\ matches = <<>>
      /\ closest = -1
      /\ origin = NoOrigin
      /\ HostIdle

\* rpcnotify(method, request_id, args): this revision sends no node_info
RequestCursor(method) ==
  /\ phase = "idle"
  /\ phase' = "requested"
  /\ request' = [method |-> method, node_info |-> NoNodeInfo]
  /\ UNCHANGED <<buffer, response, log, located, matches, point, closest, origin>>
  /\ UNCHANGED hostVars

\* the notification handler: list_mods, a registered mod run on the window
\* cursor, or nothing for any other method
ServeCursor ==
  LET
      \* Object.keys(modMap) of this revision
      cursorModNames == <<"delete_function">>
      \* const cursor = { line: cursorRaw[0] - 1, column: cursorRaw[1] + 1 } for the
      \* window cursor (1-based row, 0-based column) at pos
      serverCursor(pos) == [line |-> pos.line, column |-> pos.column + 1]
  IN
      /\ phase = "requested"
      /\ response' =
           IF request.method = "list_mods"
           THEN [type |-> "mods", mods |-> cursorModNames]
           ELSE IF request.method = "delete_function"
           THEN handleDeleteFunction(Parse(buffer), SourceText(buffer.tokens),
                                     serverCursor(point))
           ELSE response
      /\ phase' = "served"
      /\ UNCHANGED <<buffer, request, log, located, matches, point, closest, origin>>
      /\ UNCHANGED hostVars

NextCursor ==
  \/ \E method \in {"list_mods", "delete_function", "no_such_mod"} :
       RequestCursor(method)
  \/ ServeCursor

SpecCursor == InitCursor /\ [][NextCursor]_vars

\* ------------------------------------------------------------------------
\* The server revision whose handlers take a node descriptor and find the
\* node by its range: debug_node_under_cursor, call_nearest_expression,
\* delete_closest_tag
\* ------------------------------------------------------------------------

\* findNodeUnderCursor of this revision: the node, or the error it throws
findNodeUnderCursorByRange(tree, nodeInfo) ==
  LET
      \* root.findAll({rule: {pattern: "$$$", range}}): the nodes with exactly that
      \* range, outer before inner
      findAllInRange(tree1, range) ==
        SelectSeq([n \in 1..Len(tree1) |-> n], LAMBDA n : tree1[n].range = range)
  IN
      IF ~nodeInfo.present
      THEN [thrown |-> TRUE, error |-> NoMatchError("tree-sitter node")]
      ELSE LET matchingNodes == findAllInRange(tree, nodeInfo.range)
           IN IF Len(matchingNodes) = 0
              THEN [thrown |-> TRUE, error |-> NoMatchError("AST-grep node")]
              ELSE [thrown |-> FALSE, node |-> matchingNodes[1]]

handleDebugNodeUnderCursorByRange(tree, nodeInfo) ==
  LET found == findNodeUnderCursorByRange(tree, nodeInfo)
  IN IF found.thrown THEN found.error
     ELSE DebugError(printNodeTree(tree, contextRootFrom(tree, found.node, 0), 0, 3,
                                   found.node))

CHAIN_KINDS == {"member_expression", "call_expression"}

ARROW == <<"(", ")", " ", "=", ">", " ">>

handleCallNearestExpression(tree, nodeInfo) ==
  LET
      \* the loop "while (currentNode)" of handleCallNearestExpression
      RECURSIVE nearestChainFrom(_, _)
      nearestChainFrom(tree2, currentNode) ==
        IF currentNode = Null THEN Null
        ELSE IF tree2[currentNode].kind \in CHAIN_KINDS THEN currentNode
        ELSE nearestChainFrom(tree2, tree2[currentNode].parent)
      \* the loop "while (chainRoot.parent())": up while the parent is of CHAIN_KINDS
      RECURSIVE chainRootFrom(_, _)
      chainRootFrom(tree1, chainRoot) ==
        LET parent == tree1[chainRoot].parent
        IN IF parent # Null /\ tree1[parent].kind \in CHAIN_KINDS
           THEN chainRootFrom(tree1, parent)
           ELSE chainRoot
  IN
      LET found == findNodeUnderCursorByRange(tree, nodeInfo)
      IN IF found.thrown THEN found.error
         ELSE LET memberExpression == nearestChainFrom(tree, found.node)
              IN IF memberExpression = Null THEN NoMatchError("member expression")
                 ELSE LET chainRoot == tree[chainRootFrom(tree, memberExpression)]
                      IN [type |-> "success",
                          mod |-> ARROW \o chainRoot.text \o <<"(", ")">>,
                          original_range |-> chainRoot.range]

JSX_KINDS == {"jsx_element", "jsx_self_closing_element", "jsx_fragment"}

\* the walk goes on to the outermost JSX construct
RECURSIVE outermostTagFrom(_, _)
outermostTagFrom(tree, currentNode) ==
  IF currentNode = Null THEN Null
  ELSE LET outer == outermostTagFrom(tree, tree[currentNode].parent)
       IN IF outer # Null THEN outer
          ELSE IF tree[currentNode].kind \in JSX_KINDS THEN currentNode
          ELSE Null

\* the loop "while (currentNode)" of handleDeleteClosestTag: the first JSX
\* construct met on the way up
RECURSIVE closestTagFrom(_, _)
closestTagFrom(tree, currentNode) ==
  IF currentNode = Null THEN Null
  ELSE IF tree[currentNode].kind \in JSX_KINDS THEN currentNode
  ELSE closestTagFrom(tree, tree[currentNode].parent)

handleDeleteClosestTag(tree, nodeInfo) ==
  LET found == findNodeUnderCursorByRange(tree, nodeInfo)
  IN IF found.thrown THEN found.error
     ELSE LET currentNode == closestTagFrom(tree, found.node)
          IN IF currentNode = Null THEN NoMatchError("JSX tag or fragment")
             ELSE [type |-> "success", mod |-> <<>>,
                   original_range |-> tree[currentNode].range,
                   clipboard |-> tree[currentNode].text]

\* Object.keys(modMap) of this revision
rangeModNames ==
  <<"debug_node_under_cursor", "call_nearest_expression", "delete_closest_tag">>

rangeModMap(method, tree, nodeInfo) ==
  CASE method = "debug_node_under_cursor" ->
         handleDebugNodeUnderCursorByRange(tree, nodeInfo)
    [] method = "call_nearest_expression" -> handleCallNearestExpression(tree, nodeInfo)
    [] method = "delete_closest_tag"      -> handleDeleteClosestTag(tree, nodeInfo)

RECURSIVE namedFrom(_, _)
namedFrom(tree, n) ==
  LET
      isNamed(tree1, n1) ==
        LET
            \* vim.treesitter.get_node(): the smallest named node at the cursor.  Tokens
            \* that are punctuation or keywords are anonymous.
            NAMED_TOKEN_KINDS ==
              {"identifier", "type_identifier", "property_identifier",
               "shorthand_property_identifier_pattern", "jsx_text"}
        IN
            tree1[n1].children # <<>> \/ tree1[n1].kind \in NAMED_TOKEN_KINDS
  IN
      IF isNamed(tree, n) THEN n ELSE namedFrom(tree, tree[n].parent)

get_node(tree, pos) ==
  LET deepest == findDeepest(tree, Root, pos.line, pos.column)
  IN IF deepest = Null THEN Root ELSE namedFrom(tree, deepest)

\* node_info = { range, text, type, cursor } of the node at the cursor
get_node_info_under_cursor(tree, pos) ==
  LET node == tree[get_node(tree, pos)]
  IN [present |-> TRUE, range |-> node.range, text |-> node.text,
      type |-> node.kind, cursor |-> pos]

\* JSX sources: <n/>, <n>child</n>, <>child</>
SelfClosing(n) ==
  Wrap("jsx_self_closing_element",
       Cat(Cat(Punct("<"), Ident("identifier", <<n>>)), Leaf("/>", <<"/", ">">>)))

Element(n, child) ==
  Wrap("jsx_element",
       Cat(Cat(Wrap("jsx_opening_element",
                    Cat(Cat(Punct("<"), Ident("identifier", <<n>>)), Punct(">"))),
               child),
           Wrap("jsx_closing_element",
                Cat(Cat(Leaf("</", <<"<", "/">>), Ident("identifier", <<n>>)),
                    Punct(">")))))

Fragment(child) ==
  Wrap("jsx_fragment",
       Cat(Cat(Cat(Punct("<"), Punct(">")), child),
           Cat(Leaf("</", <<"<", "/">>), Punct(">"))))

JsxText(text) == Leaf("jsx_text", text)

JsxExpressions ==
  {SelfClosing("a"),
   Element("a", SelfClosing("b")),
   Element("a", Element("b", JsxText(<<"x">>))),
   Element("a", Cat(JsxText(<<NL, " ">>), SelfClosing("b"))),
   Fragment(SelfClosing("b")),
   Fragment(Element("a", JsxText(<<"x">>))),
   Ident("identifier", <<"a">>),
   Wrap("call_expression",
        Cat(Wrap("member_expression",
                 Cat(Cat(Ident("identifier", <<"a">>), Punct(".")),
                     Ident("property_identifier", <<"b">>))),
            Wrap("arguments", Cat(Punct("("), Punct(")")))))}


InitTag ==
  LET
      \* an expression statement with or without its semicolon
      TagBuffers ==
        {WithGap(Wrap("program", Wrap("expression_statement", e)), lead) :
           e \in JsxExpressions, lead \in Pads}
        \cup
        {WithGap(Statement(e), lead) : e \in JsxExpressions, lead \in Pads}
  IN
      /\ buffer \in TagBuffers
      /\ point \in CursorPositions(SourceText(buffer.tokens))
      /\ phase = "idle"
      /\ request = NoRequest
      /\ response = NoResult
      /\ log = <<>>
      /\ located = NotLocated
      /\ matches = <<>>
      /\ closest = -1
      /\ origin = NoOrigin
      /\ HostIdle

\* the key map: the node under the cursor is captured and sent with the method
RequestTag(method) ==
  /\ phase = "idle"
  /\ phase' = "requested"
  /\ request' = [method |-> method,
                 node_info |-> get_node_info_under_cursor(Parse(buffer), point)]
  /\ UNCHANGED <<buffer, response, log, located, matches, point, closest, origin>>
  /\ UNCHANGED hostVars

\* the buffer is edited after the node was captured and before the server
\* reads the lines
EditTag(k, text) ==
  LET
      \* the user replaces the name at token k1 by text1
      Rename(f, k1, text1) ==
        [f EXCEPT !.tokens = [f.tokens EXCEPT ![k1] = [f.tokens[k1] EXCEPT !.text = text1]]]
  IN
      /\ phase = "requested"
      /\ origin = NoOrigin
      /\ buffer.tokens[k].kind \in {"identifier", "property_identifier"}
      /\ buffer' = Rename(buffer, k, text)
      /\ origin' = [buffer |-> buffer, point |-> point]
      /\ UNCHANGED <<phase, request, response, log, located, matches, point, closest>>
      /\ UNCHANGED hostVars

\* the notification handler of this revision
ServeTag ==
  /\ phase = "requested"
  /\ LET tree   == Parse(buffer)
         result == IF request.method = "list_mods"
                   THEN [type |-> "mods", mods |-> rangeModNames]
                   ELSE IF request.method \in Range(rangeModNames)
                   THEN rangeModMap(request.method, tree, request.node_info)
                   ELSE response
         found  == findNodeUnderCursorByRange(tree, request.node_info)
     IN /\ response' = result
        /\ located' = IF request.method \in Range(rangeModNames) /\ ~found.thrown
                      THEN [node |-> found.node, listParent |-> Null]
                      ELSE NotLocated
  /\ phase' = "served"
  /\ UNCHANGED <<buffer, request, log, matches, point, closest, origin>>
  /\ UNCHANGED hostVars

NextTag ==
  \/ \E method \in Range(rangeModNames) \cup {"list_mods", "no_such_mod"} :
       RequestTag(method)
  \/ \E k \in 1..Len(buffer.tokens), text \in {<<"c">>, <<"c", "c">>} : EditTag(k, text)
  \/ ServeTag

SpecTag == InitTag /\ [][NextTag]_vars

\* ------------------------------------------------------------------------
\* point-free-to-anon on the window cursor (the server revision whose
\* handlers take a cursor)
\* ------------------------------------------------------------------------
MEMBER_KINDS == {"member_expression", "optional_member_expression", "subscript_expression"}

\* the walk up from current to the first node of kind k
RECURSIVE parentOfKindFrom(_, _, _)
parentOfKindFrom(tree, current, k) ==
  IF current = Null THEN Null
  ELSE IF tree[current].kind = k THEN current
  ELSE parentOfKindFrom(tree, tree[current].parent, k)

findTargetNodeAtCursor(tree, nodes, cursor) ==
  LET
      \* the loop over nodes1 from index i: a node holding the cursor1, then its
      \* children of the member kinds that hold the cursor1
      RECURSIVE candidateNodesFrom(_, _, _, _)
      candidateNodesFrom(tree1, nodes1, i, cursor1) ==
        IF i > Len(nodes1) THEN <<>>
        ELSE LET node == nodes1[i]
                 children ==
                   IF tree1[node].kind \in MEMBER_KINDS
                   THEN SelectSeq(tree1[node].children,
                          LAMBDA child : /\ tree1[child].kind \in MEMBER_KINDS \cup {"identifier"}
                                         /\ withinMatch(tree1[child].range, cursor1))
                   ELSE <<>>
             IN (IF withinMatch(tree1[node].range, cursor1) THEN <<node>> \o children ELSE <<>>)
                  \o candidateNodesFrom(tree1, nodes1, i + 1, cursor1)
  IN
      LET candidateNodes == candidateNodesFrom(tree, nodes, 1, cursor)
          closestNode ==
            findClosestNodeAtCursor(
              [i \in 1..Len(candidateNodes) |-> tree[candidateNodes[i]].range], cursor)
      IN IF closestNode = Null THEN Null ELSE candidateNodes[closestNode]

\* parseAsync(lang, expressionText) for the text of node n of f: the tokens
\* and inner nodes of n, parsed as a program of one expression statement
expressionFragment(f, n) ==
  LET from  == NodeFrom(f, n)
      to    == NodeTo(f, n)
      inner == SelectSeq([i \in 1..Len(f.spans) |-> i],
                 LAMBDA i : i >= n /\ f.spans[i].from >= from /\ f.spans[i].to <= to)
  IN Wrap("program", Wrap("expression_statement",
       WithGap([tokens |-> SubSeq(f.tokens, from, to),
                spans  |-> [i \in 1..Len(inner) |->
                              [kind |-> f.spans[inner[i]].kind,
                               from |-> f.spans[inner[i]].from - from + 1,
                               to   |-> f.spans[inner[i]].to - from + 1]]],
               <<>>)))

\* ast is the parse of the expression text alone
hasOptionalLastAccessor(ast) ==
  LET
      \* expr has no ancestor of the member kinds
      notNested(tree, expr) ==
        \A k \in MEMBER_KINDS : parentOfKindFrom(tree, tree[expr].parent, k) = Null
  IN
      LET allExpressions == findAll(ast, "member_expression")
                              \o findAll(ast, "optional_member_expression")
                              \o findAll(ast, "subscript_expression")
          outermost == SelectSeq(allExpressions, LAMBDA expr : notNested(ast, expr))
      IN outermost # <<>> /\ ast[outermost[1]].kind = "optional_member_expression"

charAt(text, i) == IF i \in 1..Len(text) THEN text[i] ELSE ""

\* patterns.some((pattern) => pattern.test(arg)) for the escaped originalText
matchesPattern(originalText, arg) ==
  LET
      \* pat occurs in text at index i
      occursAt(text, pat, i) ==
        i >= 1 /\ i + Len(pat) - 1 <= Len(text) /\ SubSeq(text, i, i + Len(pat) - 1) = pat
  IN
      LET n == Len(originalText)
      IN \/ occursAt(arg, originalText, 1) /\ charAt(arg, n + 1) \in {".", "?", "["}
         \/ \E i \in 2..Len(arg) :
              /\ occursAt(arg, originalText, i)
              /\ arg[i - 1] \in {".", "?"}
              /\ charAt(arg, i + n) \in {".", "?", "["}
         \/ \E i \in 2..Len(arg) :
              /\ occursAt(arg, originalText, i)
              /\ arg[i - 1] \in {".", "?"}
              /\ \/ charAt(arg, i + n) = "("
                 \/ charAt(arg, i + n) = "?" /\ charAt(arg, i + n + 1) = "("
         \/ arg = originalText

\* lastAccessorIsOptional ? `() => ${text}()` : `() => ${text}?.()`
transformedText(text, lastAccessorIsOptional) ==
  IF lastAccessorIsOptional
  THEN ARROW \o text \o <<"(", ")">>
  ELSE ARROW \o text \o <<"?", ".", "(", ")">>

\* the result for the full expression whole, found from closestNode
fullExpressionResult(f, tree, source, cursor, closestNode, whole) ==
  LET
      \* the first node of the member kinds or identifier whose text is text
      nodeOfText(tree1, text) ==
        SelectSeq(findAll(tree1, "member_expression")
                    \o findAll(tree1, "optional_member_expression")
                    \o findAll(tree1, "subscript_expression")
                    \o findAll(tree1, "identifier"),
                  LAMBDA node : tree1[node].text = text)
  IN
      LET text    == tree[whole].text
          mod     == transformedText(text, hasOptionalLastAccessor(Parse(expressionFragment(f, whole))))
          argNode == nodeOfText(tree, text)
      IN [type |-> "success", found |-> TRUE, mod |-> mod,
          original_range |-> IF argNode # <<>> THEN tree[argNode[1]].range
                             ELSE tree[closestNode].range,
          cursor |-> cursor,
          source |-> replace(source, text, mod)]

handlePointFreeToAnon(f, cursor) ==
  LET
      findParentCallExpression(tree, node) ==
        parentOfKindFrom(tree, tree[node].parent, "call_expression")
      findParentJsxExpression(tree, node) ==
        parentOfKindFrom(tree, tree[node].parent, "jsx_expression")
      \* the children of callExpression.field("arguments"), punctuation included
      extractCallArguments(tree, callExpression) ==
        LET argumentsNode == SelectSeq(tree[callExpression].children,
                                       LAMBDA c : tree[c].kind = "arguments")
        IN IF argumentsNode = <<>> THEN <<>> ELSE tree[argumentsNode[1]].children
  IN
      LET tree   == Parse(f)
          source == SourceText(f.tokens)
          targetNodes == findAll(tree, "identifier") \o findAll(tree, "member_expression")
                           \o findAll(tree, "subscript_expression")
                           \o findAll(tree, "optional_member_expression")
          closestNode == findTargetNodeAtCursor(tree, targetNodes, cursor)
      IN IF closestNode = Null THEN NotFound(cursor)
         ELSE
           LET originalText == tree[closestNode].text
               parentCall   == findParentCallExpression(tree, closestNode)
               args         == IF parentCall = Null THEN <<>>
                               ELSE extractCallArguments(tree, parentCall)
               exact        == SelectSeq(args, LAMBDA arg : tree[arg].text = originalText)
               partial      == SelectSeq(args,
                                 LAMBDA arg : matchesPattern(originalText, tree[arg].text))
               parentJsx    == findParentJsxExpression(tree, closestNode)
               jsxChildren  == IF parentJsx = Null THEN <<>>
                               ELSE SelectSeq(tree[parentJsx].children,
                                      LAMBDA child : tree[child].kind \notin {"{", "}"})
           IN IF exact # <<>>
              THEN LET mod == transformedText(originalText,
                                hasOptionalLastAccessor(Parse(expressionFragment(f, closestNode))))
                   IN [type |-> "success", found |-> TRUE, mod |-> mod,
                       original_range |-> tree[closestNode].range,
                       cursor |-> cursor,
                       source |-> replace(source, originalText, mod)]
              ELSE IF partial # <<>>
              THEN fullExpressionResult(f, tree, source, cursor, closestNode, partial[1])
              ELSE IF /\ Len(jsxChildren) = 1
                      /\ matchesPattern(originalText, tree[jsxChildren[1]].text)
              THEN fullExpressionResult(f, tree, source, cursor, closestNode, jsxChildren[1])
              ELSE NotFound(cursor)

\* reference expressions: p, a.b, a?.b, a[b] and chains of three names.  The
\* optional accessor is given both as the kind the handler asks for and as a
\* member_expression holding an optional_chain token.
Member(object, property) ==
  Wrap("member_expression",
       Cat(Cat(object, Punct(".")), Ident("property_identifier", <<property>>)))

OptionalMember(object, property) ==
  Wrap("optional_member_expression",
       Cat(Cat(object, Leaf("?.", <<"?", ".">>)),
           Ident("property_identifier", <<property>>)))

ChainMember(object, property) ==
  Wrap("member_expression",
       Cat(Cat(object, Leaf("optional_chain", <<"?", ".">>)),
           Ident("property_identifier", <<property>>)))

InitPointFree ==
  LET
      \* f(E), <a>{E}</a> and E alone, each as a statement
      PointFreeBuffers ==
        LET
            References ==
              LET
                  Subscript(object, index) ==
                    Wrap("subscript_expression",
                         Cat(Cat(Cat(object, Punct("[")), Ident("identifier", <<index>>)), Punct("]")))
              IN
                  LET a == Ident("identifier", <<"a">>)
                  IN {Ident("identifier", <<"p">>),
                      Member(a, "b"), OptionalMember(a, "b"), ChainMember(a, "b"), Subscript(a, "b"),
                      Member(Member(a, "b"), "c"),
                      Member(OptionalMember(a, "b"), "c"), Member(ChainMember(a, "b"), "c"),
                      OptionalMember(Member(a, "b"), "c"), ChainMember(Member(a, "b"), "c")}
        IN
            UNION {
              {Statement(Wrap("call_expression",
                              Cat(Ident("identifier", <<"f">>),
                                  Wrap("arguments", Cat(Cat(Punct("("), e), Punct(")")))))),
               Statement(Element("a", Wrap("jsx_expression", Cat(Cat(Punct("{"), e), Punct("}"))))),
               Statement(e)} : e \in References}
  IN
      /\ buffer \in PointFreeBuffers
      /\ point \in CursorPositions(SourceText(buffer.tokens))
      /\ phase = "idle"
      /\ request = NoRequest
      /\ response = NoResult
      /\ log = <<>>
      /\ located = NotLocated
      /\ matches = <<>>
      /\ closest = -1
      /\ origin = NoOrigin
      /\ HostIdle

\* the handler is run on the buffer and the cursor
ApplyPointFree ==
  /\ phase = "idle"
  /\ response' = handlePointFreeToAnon(buffer, point)
  /\ phase' = "served"
  /\ UNCHANGED <<buffer, request, log, located, matches, point, closest, origin>>
  /\ UNCHANGED hostVars

NextPointFree == ApplyPointFree

SpecPointFree == InitPointFree /\ [][NextPointFree]_vars

\* ------------------------------------------------------------------------
\* The host (lua/mod-flow/init.lua, commands, server.lua) and the server
\* answering its notifications (server/index.ts, main)
\* ------------------------------------------------------------------------

\* where the user puts the cursor: on the first character of a word
CursorStops(f) ==
  {PosAt(SourceText(f.tokens), TokStartOff(f.tokens, k)) :
     k \in {i \in 1..Len(f.tokens) : f.tokens[i].kind = "identifier"}}

\* what a key press captures: nothing when there is no node, the node without
\* a cursor (the key map of init.lua), or with it (get_node_info_under_cursor)
Captures(tree, pos) ==
  LET info == get_node_info_under_cursor(tree, pos)
  IN {NoNodeInfo,
      [present |-> TRUE, range |-> info.range, text |-> info.text, type |-> info.type],
      info}

\* the window cursor is kept inside the text
Clamp(text, pos) ==
  LET
      \* the length of line number line of text1
      LineLen(text1, line) ==
        LET from == LineStart(text1, line, 0)
            ends == {i \in (from + 1)..Len(text1) : text1[i] = NL}
        IN (IF ends = {} THEN Len(text1) ELSE Min(ends) - 1) - from
  IN
      LET line == IF pos.line > LineCount(text) THEN LineCount(text) ELSE pos.line
          last == IF LineLen(text, line) = 0 THEN 0 ELSE LineLen(text, line) - 1
      IN [line |-> line, column |-> IF pos.column > last THEN last ELSE pos.column]

InitHost ==
  LET
      HostBuffers ==
        {CallStatement(2, <<>>, <<" ">>),
         Statement(Binary(Ident("identifier", ItemText(1)), <<" ">>, "+", <<" ">>,
                          Ident("identifier", ItemText(2))))}
  IN
      /\ buffer \in HostBuffers
      /\ point \in CursorStops(buffer)
      /\ phase = "idle"
      /\ request = NoRequest
      /\ response = NoResult
      /\ log = <<>>
      /\ located = NotLocated
      /\ matches = <<>>
      /\ closest = -1
      /\ origin = NoOrigin
      /\ server_job_id = 1
      /\ restart_pending = FALSE
      /\ jobs = [j \in {1} |-> "running"]
      /\ launches = 1
      /\ request_id = 0
      /\ pending_requests = <<>>
      /\ inbox = {}
      /\ scheduled = <<>>
      /\ menu = <<>>
      /\ sent = <<>>
      /\ delivered = <<>>

Remove(seq, k) == SubSeq(seq, 1, k - 1) \o SubSeq(seq, k + 1, Len(seq))

\* async_request(method, {node_info = node_info}, callback): the callback runs
\* handle_method_result(result, method, node_info, cursor_pos) through
\* vim.schedule.  flow is the id of the list_mods request the flow began with.
async_request(method, node_info, cursor_pos, flow) ==
  LET
      With(f, k, v) == [i \in DOMAIN f \cup {k} |-> IF i = k THEN v ELSE f[i]]
  IN
      IF server_job_id = nil
      THEN UNCHANGED <<request_id, pending_requests, inbox, sent>>
      ELSE /\ request_id' = request_id + 1
           /\ pending_requests' =
                With(pending_requests, request_id + 1,
                     [method_name |-> method, cached_node_info |-> node_info,
                      cursor_pos |-> cursor_pos, flow |-> flow])
           /\ LET msg == [id |-> request_id + 1, method |-> method,
                          node_info |-> node_info]
              IN \* rpcnotify reaches a server only through the channel of a job
                 IF server_job_id \in DOMAIN jobs
                 THEN /\ inbox' = inbox \cup {msg}
                      /\ sent' = Append(sent, [id |-> msg.id, method |-> method,
                                               node_info |-> node_info, flow |-> flow])
                 ELSE UNCHANGED <<inbox, sent>>

\* the key map <leader>k
KeyPress(node_info) ==
  /\ server_job_id # nil
  /\ request_id < MaxRequests
  /\ async_request("list_mods", node_info, point, request_id + 1)
  /\ UNCHANGED <<buffer, phase, request, response, log, located, matches, point,
                 closest, origin, server_job_id, restart_pending, jobs, launches, scheduled, menu, delivered>>

\* a handler that keeps the entry it has answered
handle_response_keeping(response_id, result) ==
  /\ delivered' = Append(delivered, [id |-> response_id, result |-> result])
  /\ IF response_id \in DOMAIN pending_requests
     THEN /\ scheduled' = Append(scheduled, [result   |-> result,
                                             callback |-> pending_requests[response_id]])
          /\ UNCHANGED pending_requests
     ELSE UNCHANGED <<scheduled, pending_requests>>

\* handle_response(response_id, result), called by the server
handle_response(response_id, result) ==
  LET
      Without(f, k) == [i \in DOMAIN f \ {k} |-> f[i]]
  IN
      /\ delivered' = Append(delivered, [id |-> response_id, result |-> result])
      /\ IF response_id \in DOMAIN pending_requests
         THEN /\ scheduled' = Append(scheduled, [result   |-> result,
                                                 callback |-> pending_requests[response_id]])
              /\ pending_requests' = Without(pending_requests, response_id)
         ELSE UNCHANGED <<scheduled, pending_requests>>

\* the notification handler takes one notification and reads the buffer
Serve(msg) ==
  /\ msg \in inbox
  /\ inbox' = inbox \ {msg}
  /\ IF msg.method = "list_mods"
     THEN handle_response(msg.id, handleListMods) /\ log' = log
     ELSE IF msg.method \in Range(modNames)
     THEN LET result == IF ~msg.node_info.present
                        THEN NoMatchError("cursor position")
                        ELSE modMap(msg.method, Parse(buffer), msg.node_info)
          IN IF ~msg.node_info.present \/ result.type = "Error"
             THEN /\ log' = Append(log, result.message)
                  /\ UNCHANGED <<delivered, scheduled, pending_requests>>
             ELSE handle_response(msg.id, result) /\ log' = log
     ELSE UNCHANGED <<log, delivered, scheduled, pending_requests>>
  /\ UNCHANGED <<buffer, phase, request, response, located, matches, point, closest,
                 origin, server_job_id, restart_pending, jobs, launches, request_id, menu, sent>>

\* a handler that leaves the cursor where it is after a failure
RunScheduledUnrestored ==
  /\ scheduled # <<>>
  /\ scheduled' = Tail(scheduled)
  /\ LET result   == scheduled[1].result
         callback == scheduled[1].callback
     IN IF callback.method_name = "list_mods"
        THEN /\ menu' = Append(menu, [mods |-> result.mods, callback |-> callback])
             /\ UNCHANGED <<buffer, point>>
        ELSE IF result.type = "ModFlowError"
        THEN UNCHANGED <<buffer, menu, point>>
        ELSE /\ buffer' = applyResult(buffer, result)
             /\ point' = Clamp(SourceText(applyResult(buffer, result).tokens), point)
             /\ menu' = menu
  /\ UNCHANGED <<phase, request, response, log, located, matches, closest, origin,
                 server_job_id, restart_pending, jobs, launches, request_id,
                 pending_requests, inbox, sent, delivered>>

\* a scheduled callback runs handle_method_result
RunScheduled ==
  /\ scheduled # <<>>
  /\ scheduled' = Tail(scheduled)
  /\ LET result   == scheduled[1].result
         callback == scheduled[1].callback
     IN IF callback.method_name = "list_mods"
        THEN /\ menu' = Append(menu, [mods |-> result.mods, callback |-> callback])
             /\ UNCHANGED <<buffer, point>>
        ELSE IF result.type = "ModFlowError"
        THEN /\ point' = callback.cursor_pos
             /\ UNCHANGED <<buffer, menu>>
        ELSE IF callback.method_name = "debug_node_under_cursor"
        THEN /\ point' = callback.cursor_pos
             /\ UNCHANGED <<buffer, menu>>
        ELSE /\ buffer' = applyResult(buffer, result)
             /\ point' = Clamp(SourceText(applyResult(buffer, result).tokens), point)
             /\ menu' = menu
  /\ UNCHANGED <<phase, request, response, log, located, matches, closest, origin,
                 server_job_id, restart_pending, jobs, launches, request_id, pending_requests, inbox, sent, delivered>>

\* the node under the cursor at the time the entry is picked
node_info_at_point(entry) == get_node_info_under_cursor(Parse(buffer), point)

\* { node_info = cached_node_info }: the descriptor the callback closed over
cached_node_info(entry) == entry.callback.cached_node_info

\* the user picks an entry of an open menu
MenuSelect(k, selected) ==
  /\ k \in 1..Len(menu)
  /\ selected \in Range(menu[k].mods)
  /\ request_id < MaxRequests
  /\ menu' = Remove(menu, k)
  /\ async_request(selected, cached_node_info(menu[k]),
                   menu[k].callback.cursor_pos, menu[k].callback.flow)
  /\ UNCHANGED <<buffer, phase, request, response, log, located, matches, point,
                 closest, origin, server_job_id, restart_pending, jobs, launches, scheduled, delivered>>

\* the cursor stays where the user left it
cursor_as_left(entry) == point

\* vim.api.nvim_win_set_cursor(0, cursor_pos)
restored_cursor(entry) == entry.callback.cursor_pos

\* the user dismisses an open menu
MenuCancel(k) ==
  /\ k \in 1..Len(menu)
  /\ menu' = Remove(menu, k)
  /\ point' = restored_cursor(menu[k])
  /\ UNCHANGED <<buffer, phase, request, response, log, located, matches, closest,
                 origin, server_job_id, restart_pending, jobs, launches, request_id, pending_requests, inbox,
                 scheduled, sent, delivered>>

\* the user moves the cursor while a menu is open
MoveCursor(pos) ==
  /\ menu # <<>>
  /\ pos # point
  /\ point' = pos
  /\ UNCHANGED <<buffer, phase, request, response, log, located, matches, closest,
                 origin, hostVars>>

NextHost ==
  \/ \E node_info \in Captures(Parse(buffer), point) : KeyPress(node_info)
  \/ \E msg \in inbox : Serve(msg)
  \/ RunScheduled
  \/ \E k \in 1..Len(menu), selected \in Range(modNames) : MenuSelect(k, selected)
  \/ \E k \in 1..Len(menu) : MenuCancel(k)
  \/ \E pos \in CursorStops(buffer) : MoveCursor(pos)

SpecHost == InitHost /\ [][NextHost]_vars

\* ------------------------------------------------------------------------
\* The host while the user goes on editing: between the notification handler
\* reading the lines and the scheduled callback changing the buffer, Neovim
\* handles the keys the user types
\* ------------------------------------------------------------------------
\* the user replaces the word at token k by text of the same length while
\* an edit is on its way
Type(k, text) ==
  /\ \E i \in DOMAIN scheduled : scheduled[i].result.type = "success"
  /\ buffer.tokens[k].kind = "identifier"
  /\ Len(buffer.tokens[k].text) = Len(text)
  /\ \A i \in DOMAIN buffer.tokens : buffer.tokens[i].text # text
  /\ buffer' = [buffer EXCEPT !.tokens[k].text = text]
  /\ UNCHANGED <<phase, request, response, log, located, matches, point, closest,
                 origin, hostVars>>

NextEdit ==
  \/ \E node_info \in Captures(Parse(buffer), point) : KeyPress(node_info)
  \/ \E msg \in inbox : Serve(msg)
  \/ RunScheduled
  \/ \E k \in 1..Len(menu), selected \in Range(modNames) : MenuSelect(k, selected)
  \/ \E k \in 1..Len(menu) : MenuCancel(k)
  \/ \E pos \in CursorStops(buffer) : MoveCursor(pos)
  \/ \E k \in DOMAIN buffer.tokens, text \in {<<"z">>, <<"z", "z">>} : Type(k, text)

SpecEdit == InitHost /\ [][NextEdit]_vars

\* ------------------------------------------------------------------------
\* The life of the server job (lua/mod-flow/server.lua, start_server of
\* init.lua)
\* ------------------------------------------------------------------------
MaxLaunches == 3   \* jobstart calls in one run

is_running == server_job_id # nil

\* do_start(): jobstart returns the id of the new job, or 0 or -1 when the
\* launch fails; live is the job table at the time of the call
do_start(live, returned) ==
  /\ launches' = launches + 1
  /\ server_job_id' = returned
  /\ jobs' = IF returned > 0
             THEN [j \in DOMAIN live \cup {returned} |->
                     IF j = returned THEN "running" ELSE live[j]]
             ELSE live

\* what jobstart can return for the next launch
Returned == {launches + 1, 0, -1}

\* a start() that launches whether or not a job is running
start_launching(returned) ==
  /\ launches < MaxLaunches
  /\ do_start(jobs, returned)
  /\ UNCHANGED <<buffer, phase, request, response, log, located, matches, point,
                 closest, origin, restart_pending, request_id, pending_requests,
                 inbox, scheduled, menu, sent, delivered>>

\* start(): every number is true in `if server_job_id`; jobstop of an id
\* that is no job stops nothing
start(returned) ==
  /\ launches < MaxLaunches
  /\ IF server_job_id # nil
     THEN /\ restart_pending' = TRUE
          /\ jobs' = [j \in DOMAIN jobs |->
                       IF j = server_job_id THEN "stopping" ELSE jobs[j]]
          /\ UNCHANGED <<server_job_id, launches>>
     ELSE /\ do_start(jobs, returned)
          /\ UNCHANGED restart_pending
  /\ UNCHANGED <<buffer, phase, request, response, log, located, matches, point,
                 closest, origin, request_id, pending_requests, inbox, scheduled,
                 menu, sent, delivered>>

\* an exit handler that also forgets the requests waiting for an answer
on_exit_clearing(j, returned) ==
  /\ j \in DOMAIN jobs
  /\ inbox' = {}
  /\ pending_requests' = <<>>
  /\ IF restart_pending
     THEN /\ restart_pending' = FALSE
          /\ do_start([i \in DOMAIN jobs \ {j} |-> jobs[i]], returned)
     ELSE /\ server_job_id' = nil
          /\ jobs' = [i \in DOMAIN jobs \ {j} |-> jobs[i]]
          /\ UNCHANGED <<restart_pending, launches>>
  /\ UNCHANGED <<buffer, phase, request, response, log, located, matches, point,
                 closest, origin, request_id, scheduled, menu, sent, delivered>>

\* on_exit of job j, stopped or not: the notifications it has not handled
\* are lost with it
on_exit(j, returned) ==
  /\ j \in DOMAIN jobs
  /\ inbox' = {}
  /\ IF restart_pending
     THEN /\ restart_pending' = FALSE
          /\ do_start([i \in DOMAIN jobs \ {j} |-> jobs[i]], returned)
     ELSE /\ server_job_id' = nil
          /\ jobs' = [i \in DOMAIN jobs \ {j} |-> jobs[i]]
          /\ UNCHANGED <<restart_pending, launches>>
  /\ UNCHANGED <<buffer, phase, request, response, log, located, matches, point,
                 closest, origin, request_id, pending_requests, scheduled, menu,
                 sent, delivered>>

\* the server, or anything else on the channel, calls handle_response
Respond(response_id) ==
  /\ Len(delivered) <= MaxRequests
  /\ handle_response(response_id, handleListMods)
  /\ UNCHANGED <<buffer, phase, request, response, log, located, matches, point,
                 closest, origin, server_job_id, restart_pending, jobs, launches,
                 request_id, inbox, menu, sent>>

\* the module is loaded and nothing has been started
InitJob ==
  /\ buffer = CallStatement(2, <<>>, <<" ">>)
  /\ point = [line |-> 0, column |-> 0]
  /\ phase = "idle"
  /\ request = NoRequest
  /\ response = NoResult
  /\ log = <<>>
  /\ located = NotLocated
  /\ matches = <<>>
  /\ closest = -1
  /\ origin = NoOrigin
  /\ HostIdle

NextJob ==
  \/ \E returned \in Returned : start(returned)
  \/ \E j \in DOMAIN jobs, returned \in Returned : on_exit(j, returned)
  \/ \E node_info \in {NoNodeInfo} : KeyPress(node_info)
  \/ \E response_id \in 1..(MaxRequests + 1) : Respond(response_id)

SpecJob == InitJob /\ [][NextJob]_vars

\* ========================================================================
\* Properties
\* ========================================================================
\* start-inclusive, end-exclusive membership of a position in a range
Contains(range, pos) == PosLE(range.start, pos) /\ PosLT(pos, range.end)

WeightedSize(range) ==
  (range.end.line - range.start.line) * 1000 + (range.end.column - range.start.column)

Containing == {i \in 1..Len(matches) : Contains(matches[i], point)}

\* C1: findClosestNodeAtCursor returns a candidate whose half-open range
\* contains the point and whose weighted size is minimal among the candidates
\* containing the point, and returns no match exactly when no candidate's
\* half-open range contains the point.
C1_ClosestContainsAndIsMinimal ==
  closest # -1 =>
    IF Containing = {} THEN closest = Null
    ELSE /\ closest \in Containing
         /\ \A j \in Containing :
              WeightedSize(matches[closest]) <= WeightedSize(matches[j])

\* C2: when a single-line candidate and a multi-line candidate both contain
\* the point and the single-line one is the narrower span (it lies within the
\* multi-line one), the multi-line candidate is not the one returned.
C2_SingleLineBeatsMultiLine ==
  closest # -1 =>
    \A s \in Containing, m \in Containing :
      ( /\ matches[s].start.line = matches[s].end.line
        /\ matches[m].start.line < matches[m].end.line
        /\ PosLE(matches[m].start, matches[s].start)
        /\ PosLE(matches[s].end, matches[m].end) )
      => closest # m

\* ------------------------------------------------------------------------
\* The request that was served, read against the tree of the buffer
\* ------------------------------------------------------------------------
Tree == Parse(buffer)
Cursor == request.node_info.cursor

ServedMod ==
  /\ phase = "served"
  /\ request.method \in Range(modNames)
  /\ request.node_info.present

ServedMove ==
  /\ phase = "served"
  /\ request.method \in {"move_left", "move_right"}
  /\ request.node_info.present

IsSuccess(r) == r.type = "success"
IsNoMatch(r) == r.type = "ModFlowError" /\ r.code = "NO_MATCH"

\* the descent rule: from node, step into the first child containing pos
RECURSIVE Descend(_, _, _)
Descend(tree, node, pos) ==
  LET inside == {i \in 1..Len(tree[node].children) :
                   Contains(tree[tree[node].children[i]].range, pos)}
  IN IF inside = {} THEN node
     ELSE Descend(tree, tree[node].children[Min(inside)], pos)

\* C3: findNodeUnderCursor returns a node whose half-open range contains the
\* point whenever the root contains it, and that node is the one the descent
\* rule reaches from the root; when the root does not contain the point no
\* node is resolved.
C3_DeepestNodeIsDescent ==
  ServedMod =>
    IF Contains(Tree[Root].range, Cursor)
    THEN /\ located.node # Null
         /\ Contains(Tree[located.node].range, Cursor)
         /\ located.node = Descend(Tree, Root, Cursor)
    ELSE located.node = Null

\* the descent passed over an earlier sibling and went at least two levels down
C3_Witness ==
  /\ ServedMod
  /\ located.node # Null
  /\ Tree[located.node].parent # Null
  /\ Tree[Tree[located.node].parent].parent # Null
  /\ Tree[Tree[located.node].parent].children[1] # located.node
  /\ Cursor.line > 0

\* the nearest proper ancestor of node whose kind is in kinds, Null if none
RECURSIVE NearestProperAncestor(_, _, _)
NearestProperAncestor(tree, node, kinds) ==
  LET p == tree[node].parent
  IN IF p = Null THEN Null
     ELSE IF tree[p].kind \in kinds THEN p
     ELSE NearestProperAncestor(tree, p, kinds)

\* C4: findAncestorOfKind never returns the start node itself: the list parent
\* a move resolves is the nearest proper ancestor of the deepest node at the
\* cursor whose kind is a list-parent kind, or no match.
C4_AncestorExcludesStartNode ==
  (ServedMove /\ located.node # Null) =>
    /\ located.listParent # located.node
    /\ located.listParent = NearestProperAncestor(Tree, located.node, LIST_PARENT_KINDS)

\* ------------------------------------------------------------------------
\* Binary and ternary swaps
\* ------------------------------------------------------------------------
BinaryNodes == {b \in 1..Len(Tree) :
                  Tree[b].kind = "binary_expression" /\ Len(Tree[b].children) = 3}
TernaryNodes == {t \in 1..Len(Tree) :
                   Tree[t].kind = "ternary_expression" /\ Len(Tree[t].children) = 5}

Child(n, i) == Tree[Tree[n].children[i]]
OnChild(n, i) == Contains(Child(n, i).range, Cursor)

\* C5: with the cursor on the operator of a binary expression both move_left
\* and move_right succeed, the replacement text is the right operand's text,
\* the operator and the left operand's text joined by single spaces, and
\* original_range is the range of the whole binary expression.
C5_OperatorSwap ==
  ServedMove =>
    \A b \in BinaryNodes :
      OnChild(b, 2) =>
        /\ IsSuccess(response)
        /\ response.mod = Child(b, 3).text \o <<" ">> \o Child(b, 2).text
                            \o <<" ">> \o Child(b, 1).text
        /\ response.original_range = Tree[b].range

\* the operator touches the left operand and the cursor is on it
C5_Witness ==
  /\ ServedMove
  /\ request.method = "move_left"
  /\ IsSuccess(response)
  /\ \E b \in BinaryNodes :
       /\ OnChild(b, 2)
       /\ Child(b, 1).range.end = Child(b, 2).range.start
       /\ Tree[b].range.start.column > 0

\* C6: with the cursor inside the left operand of the binary expression,
\* move_left fails with NO_MATCH and move_right swaps; with the cursor inside
\* the right operand, move_right fails with NO_MATCH and move_left swaps.
C6_OperandDirections ==
  (ServedMove /\ located.listParent \in BinaryNodes) =>
    /\ OnChild(located.listParent, 1) =>
         IF request.method = "move_left" THEN IsNoMatch(response)
                                         ELSE IsSuccess(response)
    /\ OnChild(located.listParent, 3) =>
         IF request.method = "move_right" THEN IsNoMatch(response)
                                          ELSE IsSuccess(response)

C8_TernaryDirections ==
  (ServedMove /\ located.listParent \in TernaryNodes) =>
    LET t == located.listParent
    IN /\ (OnChild(t, 1) \/ OnChild(t, 2)) => IsNoMatch(response)
       /\ OnChild(t, 3) =>
            IF request.method = "move_right" THEN IsSuccess(response)
                                             ELSE IsNoMatch(response)
       /\ OnChild(t, 5) =>
            IF request.method = "move_left" THEN IsSuccess(response)
                                            ELSE IsNoMatch(response)
       /\ OnChild(t, 4) => IsSuccess(response)

\* ------------------------------------------------------------------------
\* Generic lists
\* ------------------------------------------------------------------------
GenericListKinds ==
  {"arguments", "formal_parameters", "object_pattern", "intersection_type",
   "union_type"}

\* separators and enclosing punctuation of the list kinds
ListPunctuation == {",", "(", ")", "{", "}", "|", "&"}

\* the ordered items of a list: its children that are neither separators nor
\* enclosing punctuation
ItemsOf(p) ==
  SelectSeq(Tree[p].children, LAMBDA c : Tree[c].kind \notin ListPunctuation)

ServedList ==
  /\ ServedMove
  /\ located.listParent # Null
  /\ Tree[located.listParent].kind \in GenericListKinds

\* C9: in a generic list, move_left with the cursor on the first item and
\* move_right with the cursor on the last item fail with NO_MATCH.
C9_ListBoundaries ==
  (ServedList /\ ItemsOf(located.listParent) # <<>>) =>
    LET items == ItemsOf(located.listParent)
    IN /\ ( /\ request.method = "move_left"
            /\ Contains(Tree[items[1]].range, Cursor) ) => IsNoMatch(response)
       /\ ( /\ request.method = "move_right"
            /\ Contains(Tree[items[Len(items)]].range, Cursor) ) => IsNoMatch(response)

\* C10: when a generic-list move succeeds, the replacement text is the texts
\* of two neighbouring items in exchanged order joined by ", " and
\* original_range runs from the start of the earlier one to the end of the
\* later one.
C10_ListSwapText ==
  (ServedList /\ IsSuccess(response)) =>
    LET items == ItemsOf(located.listParent)
    IN \E i \in 1..(Len(items) - 1) :
         /\ response.mod = Tree[items[i + 1]].text \o <<",", " ">> \o Tree[items[i]].text
         /\ response.original_range =
              [start |-> Tree[items[i]].range.start, end |-> Tree[items[i + 1]].range.end]

\* ------------------------------------------------------------------------
\* Round trips on comma lists
\* ------------------------------------------------------------------------
\* the list node of a fragment's tree and the tokens that are its items
ListNode(tree) == CHOOSE n \in 1..Len(tree) : tree[n].kind \in GenericListKinds

ListItems(tree) ==
  SelectSeq(tree[ListNode(tree)].children,
            LAMBDA c : tree[c].kind \notin ListPunctuation)

ItemTexts(tree) == [i \in 1..Len(ListItems(tree)) |-> tree[ListItems(tree)[i]].text]

\* the index of the item the position is on, 0 when it is on none
ItemAt(tree, pos) ==
  LET hits == {i \in 1..Len(ListItems(tree)) :
                 Contains(tree[ListItems(tree)[i]].range, pos)}
  IN IF hits = {} THEN 0 ELSE Min(hits)

OriginTree == Parse(origin.buffer)
OriginItem == ItemAt(OriginTree, origin.point)

\* the sequence started on an item that is neither the first nor the last
OnInnerItem ==
  /\ origin # NoOrigin
  /\ Len(ListItems(OriginTree)) >= 3
  /\ OriginItem > 1
  /\ OriginItem < Len(ListItems(OriginTree))

\* the two items the first move exchanged, as indices of the original list
FirstPair ==
  IF request.method = "move_left"
  THEN IF phase = "there" THEN <<OriginItem - 1, OriginItem>>
                          ELSE <<OriginItem, OriginItem + 1>>
  ELSE IF phase = "there" THEN <<OriginItem, OriginItem + 1>>
                          ELSE <<OriginItem - 1, OriginItem>>

\* the text between the two items of the original list
SeparatorOf(tree, pair) ==
  LET text == tree[Root].text
      from == OffsetOf(text, tree[ListItems(tree)[pair[1]]].range.end)
      to   == OffsetOf(text, tree[ListItems(tree)[pair[2]]].range.start)
  IN SubSeq(text, from + 1, to)

\* C11: from a cursor on an inner item of a comma list, move_left followed by
\* move_right at the returned cursor, and move_right followed by move_left,
\* both succeed and leave the items in their original order; the text of the
\* replaced range is the original text (a move writes the separator as ", ",
\* so the texts are compared where the two items were separated by ", ").
C11_RoundTrip ==
  OnInnerItem =>
    /\ phase # "failed"
    /\ phase = "back" =>
         /\ ItemTexts(Tree) = ItemTexts(OriginTree)
         /\ SeparatorOf(OriginTree, FirstPair) = <<",", " ">> =>
              SourceText(buffer.tokens) = SourceText(origin.buffer.tokens)

\* ------------------------------------------------------------------------
\* delete_function
\* ------------------------------------------------------------------------
\* the function declarations whose range contains the window cursor
FunctionsAtCursor ==
  {n \in 1..Len(Tree) : /\ Tree[n].kind = "function_declaration"
                        /\ Contains(Tree[n].range, point)}

ServedDeleteFunction == phase = "served" /\ request.method = "delete_function"

\* C12: delete_function targets a function declaration of minimal weighted
\* size among those containing the cursor, with an empty replacement and that
\* function's range as original_range; when no function declaration contains
\* the cursor the result is a failure that carries no replacement.
C12_DeleteInnermostFunction ==
  ServedDeleteFunction =>
    IF FunctionsAtCursor = {}
    THEN ~response.found /\ "mod" \notin DOMAIN response
    ELSE /\ response.found
         /\ response.mod = <<>>
         /\ \E n \in FunctionsAtCursor :
              /\ response.original_range = Tree[n].range
              /\ \A m \in FunctionsAtCursor :
                   WeightedSize(Tree[n].range) <= WeightedSize(Tree[m].range)

\* ------------------------------------------------------------------------
\* delete_closest_tag
\* ------------------------------------------------------------------------
RECURSIVE AncestorOrSelf(_, _, _)
AncestorOrSelf(tree, a, n) ==
  IF n = Null THEN FALSE
  ELSE IF a = n THEN TRUE
  ELSE AncestorOrSelf(tree, a, tree[n].parent)

ServedTagMod(method) ==
  /\ phase = "served"
  /\ request.method = method
  /\ located.node # Null

\* the JSX constructs on the way from node to the root
TagsAbove(tree, node) ==
  {n \in 1..Len(tree) : /\ tree[n].kind \in JSX_KINDS
                        /\ AncestorOrSelf(tree, n, node)}

\* C13: delete_closest_tag targets the innermost JSX element, self-closing
\* element or fragment on the way from the resolved node to the root, never
\* one enclosing it: the replacement is empty, original_range is that node's
\* range and clipboard its text; with no such node the result is NO_MATCH.
C13_DeleteInnermostTag ==
  ServedTagMod("delete_closest_tag") =>
    LET tree == Tree
        tags == TagsAbove(tree, located.node)
    IN IF tags = {} THEN IsNoMatch(response)
       ELSE /\ IsSuccess(response)
            /\ response.mod = <<>>
            /\ \E n \in tags :
                 /\ \A m \in tags : AncestorOrSelf(tree, m, n)
                 /\ response.original_range = tree[n].range
                 /\ response.clipboard = tree[n].text

\* the resolved node lies in a JSX construct nested in another one
C13_Witness ==
  /\ ServedTagMod("delete_closest_tag")
  /\ IsSuccess(response)
  /\ Cardinality(TagsAbove(Tree, located.node)) >= 2
  /\ located.node \notin TagsAbove(Tree, located.node)

\* ------------------------------------------------------------------------
\* debug_node_under_cursor
\* ------------------------------------------------------------------------
\* the number of parent steps from n up to a, for a an ancestor of n or n
RECURSIVE Height(_, _, _)
Height(tree, a, n) == IF a = n THEN 0 ELSE 1 + Height(tree, a, tree[n].parent)

\* the nodes of S in document order, a node before the nodes inside it
RECURSIVE InDocumentOrder(_, _)
InDocumentOrder(tree, S) ==
  IF S = {} THEN <<>>
  ELSE LET first == CHOOSE n \in S : \A m \in S \ {n} :
                      \/ PosLT(tree[n].range.start, tree[m].range.start)
                      \/ /\ tree[n].range.start = tree[m].range.start
                         /\ AncestorOrSelf(tree, n, m)
       IN <<first>> \o InDocumentOrder(tree, S \ {first})

WholeFileKinds == {"source_file", "program"}

\* the ancestors of node, and node itself, up to 3 levels above it with no
\* whole-file root among them or between them and node
ContextCandidates(tree, node) ==
  {a \in 1..Len(tree) :
     /\ AncestorOrSelf(tree, a, node)
     /\ Height(tree, a, node) <= 3
     /\ \A b \in 1..Len(tree) :
          (AncestorOrSelf(tree, b, node) /\ AncestorOrSelf(tree, a, b) /\ b # node)
            => tree[b].kind \notin WholeFileKinds}

\* the kinds of the subtree of a down to 3 levels, each with its depth
Rendering(tree, a) ==
  LET shown == InDocumentOrder(tree,
                 {d \in 1..Len(tree) : AncestorOrSelf(tree, a, d) /\ Height(tree, a, d) <= 3})
  IN [i \in 1..Len(shown) |->
        [indent |-> Height(tree, a, shown[i]), kind |-> tree[shown[i]].kind]]

ServedDebug == phase = "served" /\ request.method = "debug_node_under_cursor"

\* C14: debug_node_under_cursor never produces a success result; whenever the
\* anchor resolves to a node the outcome is a failure with code DEBUG whose
\* message renders, down to 3 levels, the subtree of the highest ancestor at
\* most 3 levels above the resolved node and below the whole-file root.
C14_DebugIsFailure ==
  ServedDebug =>
    /\ ~IsSuccess(response)
    /\ located.node # Null =>
         LET tree  == Tree
             cands == ContextCandidates(tree, located.node)
             top   == CHOOSE a \in cands : \A b \in cands : AncestorOrSelf(tree, a, b)
         IN /\ response.type = "ModFlowError"
            /\ response.code = "DEBUG"
            /\ [i \in 1..Len(response.message) |->
                  [indent |-> response.message[i].indent,
                   kind   |-> response.message[i].kind]] = Rendering(tree, top)

\* the walk up stops below the program after two steps, and the rendering
\* leaves out nodes more than 3 levels down
C14_Witness ==
  /\ ServedDebug
  /\ located.node # Null
  /\ response.type = "ModFlowError"
  /\ LET tree == Tree
     IN /\ Height(tree, Root, located.node) = 3
        /\ \E a \in Range(tree[Root].children) :
             /\ AncestorOrSelf(tree, a, located.node)
             /\ \E d \in 1..Len(tree) :
                  AncestorOrSelf(tree, a, d) /\ Height(tree, a, d) > 3

\* ------------------------------------------------------------------------
\* The host and its requests
\* ------------------------------------------------------------------------
\* the keys of the registry, as server/index.ts writes them
RegistryKeys == {"debug_node_under_cursor", "move_left", "move_right"}

\* the request with this id was taken by the notification handler
Handled(id) == id \in 1..Len(sent) /\ \A msg \in inbox : msg.id # id

\* the handle_response calls made for the request with this id
ResponsesTo(id) == {i \in 1..Len(delivered) : delivered[i].id = id}

\* C15: list_mods always succeeds and returns the same set of names, the keys
\* of the mod registry, whatever anchor (or none) comes with the request and
\* whatever requests were handled before it.
C15_ListModsStatic ==
  \A id \in 1..Len(sent) :
    (sent[id].method = "list_mods" /\ Handled(id)) =>
      /\ ResponsesTo(id) # {}
      /\ \A i \in ResponsesTo(id) :
           /\ delivered[i].result.type = "mods"
           /\ Range(delivered[i].result.mods) = RegistryKeys
           /\ Len(delivered[i].result.mods) = Cardinality(RegistryKeys)

\* a list_mods request without an anchor is answered after one with an anchor
C15_Witness ==
  \E i, j \in 1..Len(delivered) :
    /\ i < j
    /\ sent[delivered[i].id].method = "list_mods"
    /\ sent[delivered[i].id].node_info.present
    /\ sent[delivered[j].id].method = "list_mods"
    /\ ~sent[delivered[j].id].node_info.present

\* ------------------------------------------------------------------------
\* point-free-to-anon
\* ------------------------------------------------------------------------
\* the text the range covers in text
TextOfRange(text, range) ==
  SubSeq(text, OffsetOf(text, range.start) + 1, OffsetOf(text, range.end))

\* the last accessor written in E, "." or "[", follows a "?"
OutermostAccessorOptional(E) ==
  LET accessors == {i \in 1..Len(E) : E[i] = "[" \/ (E[i] = "." /\ charAt(E, i + 1) # "[")}
      last      == Max(accessors)
  IN /\ accessors # {}
     /\ IF E[last] = "." THEN charAt(E, last - 1) = "?"
        ELSE charAt(E, last - 1) = "." /\ charAt(E, last - 2) = "?"

\* C16: when point-free-to-anon transforms a reference expression E, the
\* replacement is () => E?.() if the outermost accessor of E is optional and
\* () => E() otherwise; a bare identifier pred becomes () => pred().
C16_PointFreeWrap ==
  (phase = "served" /\ IsSuccess(response)) =>
    LET E == TextOfRange(SourceText(buffer.tokens), response.original_range)
    IN response.mod =
         ARROW \o E \o (IF OutermostAccessorOptional(E)
                        THEN <<"?", ".", "(", ")">> ELSE <<"(", ")">>)

\* ------------------------------------------------------------------------
\* Correlating a node descriptor with the fresh tree
\* ------------------------------------------------------------------------
ServedDescriptor ==
  /\ phase = "served"
  /\ request.method \in Range(rangeModNames)
  /\ request.node_info.present

\* node n of tree has the kind or the text of the descriptor
Agrees(tree, n, descriptor) ==
  tree[n].kind = descriptor.type \/ tree[n].text = descriptor.text

\* C17: correlation returns a node only if its range equals the descriptor's
\* range; of several nodes with that range, one whose kind and text both
\* differ from the descriptor's is never returned while another agrees with
\* it; with no node of that range the outcome is NO_MATCH.
C17_CorrelationNarrowed ==
  ServedDescriptor =>
    LET tree       == Tree
        descriptor == request.node_info
        sameRange  == {n \in 1..Len(tree) : tree[n].range = descriptor.range}
    IN /\ located.node # Null =>
            /\ located.node \in sameRange
            /\ \/ Agrees(tree, located.node, descriptor)
               \/ \A n \in sameRange : ~Agrees(tree, n, descriptor)
       /\ sameRange = {} =>
            /\ located.node = Null
            /\ response.type = "ModFlowError"
            /\ response.code = "NO_MATCH"

\* ------------------------------------------------------------------------
\* Every request is answered
\* ------------------------------------------------------------------------
\* C18: every request that names list_mods or a registered mod leads to
\* exactly one handle_response call for its request id, with a success result
\* or a {code, message} failure, also when the handler fails with an error
\* that is not a classified mod error.  Stated of the requests the
\* notification handler has finished with.
C18_ExactlyOneResponse ==
  \A id \in 1..Len(sent) :
    (sent[id].method \in Range(modNames) \cup {"list_mods"} /\ Handled(id)) =>
      /\ Cardinality(ResponsesTo(id)) = 1
      /\ \A i \in ResponsesTo(id) :
           delivered[i].result.type \in {"success", "mods", "ModFlowError"}

\* ------------------------------------------------------------------------
\* The list-select-apply flow
\* ------------------------------------------------------------------------
\* the requests sent for a selected mod
ModRequests == {id \in 1..Len(sent) : sent[id].method # "list_mods"}

Selected(sq, id) ==
  \E i \in 1..Len(sq) : sq[i].flow = id /\ sq[i].method # "list_mods"

\* C20: when the user cancels the selection menu no further request is sent
\* for that flow, no pending callback is registered and no buffer edit is
\* applied; the only effect is the cursor restored to the position captured
\* at the start of the flow.  A cancel is the step that closes a menu with no
\* request for a mod of its flow.
C20_CancelIsNoOp ==
  [][\A k \in 1..Len(menu) :
       (menu' = Remove(menu, k) /\ ~Selected(sent', menu[k].callback.flow)) =>
         /\ sent' = sent
         /\ inbox' = inbox
         /\ request_id' = request_id
         /\ pending_requests' = pending_requests
         /\ scheduled' = scheduled
         /\ delivered' = delivered
         /\ buffer' = buffer
         /\ point' = menu[k].callback.cursor_pos]_vars

\* a flow whose menu was closed without a selection, with the cursor back at
\* the captured position
C20_Witness ==
  \E id \in 1..Len(sent) :
    /\ sent[id].method = "list_mods"
    /\ ResponsesTo(id) # {}
    /\ id \notin DOMAIN pending_requests
    /\ \A i \in 1..Len(scheduled) : scheduled[i].callback.flow # id
    /\ \A i \in 1..Len(menu) : menu[i].callback.flow # id
    /\ ~Selected(sent, id)
    /\ sent[id].node_info.present
    /\ "cursor" \in DOMAIN sent[id].node_info
    /\ point = sent[id].node_info.cursor

\* ------------------------------------------------------------------------
\* The cursor on a separator or on the punctuation of a list
\* ------------------------------------------------------------------------
\* C21: in the generic list path, when no item's half-open range contains
\* the cursor (it is on a separator or on enclosing punctuation), no item is
\* taken as pivot: move_left and move_right fail with NO_MATCH.
C21_NoPivotOffItems ==
  ServedList =>
    LET tree  == Tree
        items == ItemsOf(located.listParent)
    IN (\A i \in 1..Len(items) : ~Contains(tree[items[i]].range, Cursor))
         => IsNoMatch(response)

\* ------------------------------------------------------------------------
\* The cursor after a list move
\* ------------------------------------------------------------------------
\* C22: after a successful generic-list move the returned cursor, read in
\* the text obtained by applying the edit, is inside the moved pivot item at
\* the same offset from the item's start as before the move.  The pivot is
\* the item whose half-open range contains the cursor; it stands first in the
\* replaced range after move_left and last after move_right.
C22_ListCursorFollowsPivot ==
  (ServedList /\ IsSuccess(response)) =>
    LET tree  == Tree
        items == ItemsOf(located.listParent)
        on    == {i \in 1..Len(items) : Contains(tree[items[i]].range, Cursor)}
        old   == SourceText(buffer.tokens)
        new   == SourceText(applyResult(buffer, response).tokens)
    IN on # {} =>
         LET pivot  == tree[items[CHOOSE i \in on : TRUE]]
             offset == OffsetOf(old, Cursor) - OffsetOf(old, pivot.range.start)
             begin  == OffsetOf(new, response.cursor) - offset
             from   == OffsetOf(old, response.original_range.start)
         IN /\ SubSeq(new, begin + 1, begin + Len(pivot.text)) = pivot.text
            /\ begin = IF request.method = "move_left" THEN from
                       ELSE from + Len(response.mod) - Len(pivot.text)
            /\ response.cursor.line =
                 PosAt(new, begin).line + (Cursor.line - pivot.range.start.line)

\* ------------------------------------------------------------------------
\* The cursor after a binary or ternary swap
\* ------------------------------------------------------------------------
\* the children of a swapped expression in their new order
SwappedOrder(n) == IF n \in BinaryNodes THEN <<3, 2, 1>> ELSE <<1, 2, 5, 4, 3>>

\* the length of the first k children in the new order, each with the single
\* space that follows it
RECURSIVE LengthBefore(_, _)
LengthBefore(n, k) ==
  IF k = 0 THEN 0
  ELSE LengthBefore(n, k - 1) + Len(Child(n, SwappedOrder(n)[k]).text) + 1

\* C23: after a successful binary or ternary swap the returned cursor, read
\* in the text obtained by applying the edit, is on the same token as before
\* the swap, at the same offset inside it, whatever whitespace and line
\* breaks separated the tokens in the original source.
C23_SwapCursorFollowsToken ==
  (ServedMove /\ located.listParent \in BinaryNodes \cup TernaryNodes
     /\ IsSuccess(response)) =>
    LET n     == located.listParent
        order == SwappedOrder(n)
        old   == SourceText(buffer.tokens)
        new   == SourceText(applyResult(buffer, response).tokens)
    IN \A k \in 1..Len(order) :
         OnChild(n, order[k]) =>
           OffsetOf(new, response.cursor) =
             OffsetOf(old, Tree[n].range.start) + LengthBefore(n, k - 1)
               + (OffsetOf(old, Cursor) - OffsetOf(old, Child(n, order[k]).range.start))

\* ------------------------------------------------------------------------
\* C24: a response with id k invokes the callback that the request with id k
\* registered, once, and removes the entry; a response whose id is not
\* pending invokes nothing and changes nothing; a request gets the id after
\* the last one given, so ids grow and none is used twice
\* ------------------------------------------------------------------------
Answered == delivered' # delivered

C24_CallbackById ==
  [][/\ Answered =>
          LET r == delivered'[Len(delivered')]
          IN IF r.id \in DOMAIN pending_requests
             THEN /\ scheduled' = Append(scheduled,
                                         [result   |-> r.result,
                                          callback |-> pending_requests[r.id]])
                  /\ pending_requests[r.id].flow = r.id
                  /\ DOMAIN pending_requests' = DOMAIN pending_requests \ {r.id}
                  /\ \A k \in DOMAIN pending_requests' :
                        pending_requests'[k] = pending_requests[k]
             ELSE UNCHANGED <<scheduled, pending_requests>>
     /\ Answered =>
          UNCHANGED <<buffer, point, server_job_id, restart_pending, jobs, launches,
                      request_id, inbox, menu, sent>>
     /\ ~Answered => scheduled' = scheduled
     /\ \A i, j \in DOMAIN scheduled' :
          scheduled'[i].callback.flow = scheduled'[j].callback.flow => i = j
     /\ request_id' >= request_id
     /\ DOMAIN pending_requests \subseteq 1..request_id
     /\ \A k \in DOMAIN pending_requests' \ DOMAIN pending_requests :
          k = request_id + 1 /\ request_id' = k
    ]_vars

\* an id answered twice and an id never given, with a request still pending
C24_Witness ==
  /\ \E i, j \in DOMAIN delivered :
       i < j /\ delivered[i].id = delivered[j].id /\ delivered[i].id <= request_id
  /\ \E i \in DOMAIN delivered : delivered[i].id > request_id
  /\ Len(scheduled) = 1
  /\ pending_requests # <<>>

\* ------------------------------------------------------------------------
\* C25: an entry leaves the pending table only in a step that is a response
\* with its id; the exit of the server, a restart and later requests leave
\* it as it is, so an entry that is never answered stays
\* ------------------------------------------------------------------------
C25_OnlyItsResponseRemoves ==
  [][\A k \in DOMAIN pending_requests :
        IF k \in DOMAIN pending_requests'
        THEN pending_requests'[k] = pending_requests[k]
        ELSE /\ Len(delivered') = Len(delivered) + 1
             /\ delivered'[Len(delivered')].id = k
    ]_vars

\* request 1 was lost with the server it was sent to; the server has been
\* replaced, request 2 has been answered, and entry 1 is still there
C25_Witness ==
  /\ 1 \in DOMAIN pending_requests
  /\ request_id = 2 /\ 2 \notin DOMAIN pending_requests
  /\ \E i \in DOMAIN sent : sent[i].id = 1
  /\ \A msg \in inbox : msg.id # 1
  /\ server_job_id = 2 /\ 2 \in DOMAIN jobs /\ 1 \notin DOMAIN jobs

\* ------------------------------------------------------------------------
\* C26: when the response to a mod request is a failure, the buffer stays
\* as it is and the cursor goes back to the position captured when the flow
\* began; the buffer changes only in a step that handles a response with mod
\* and original_range and without code and message
\* ------------------------------------------------------------------------
Handling == scheduled # <<>> /\ scheduled' = Tail(scheduled)

HasCodeAndMessage(r) == {"code", "message"} \subseteq DOMAIN r
HasModAndRange(r) == {"mod", "original_range"} \subseteq DOMAIN r

C26_FailureLeavesBuffer ==
  [][/\ (Handling /\ scheduled[1].callback.method_name # "list_mods"
                   /\ HasCodeAndMessage(scheduled[1].result)) =>
          /\ buffer' = buffer
          /\ point' = scheduled[1].callback.cursor_pos
     /\ buffer' # buffer =>
          /\ Handling
          /\ HasModAndRange(scheduled[1].result)
          /\ ~HasCodeAndMessage(scheduled[1].result)
    ]_vars

\* a move was answered with NO_MATCH and the answer has been handled
C26_Witness ==
  /\ scheduled = <<>>
  /\ \E i \in DOMAIN delivered, j \in DOMAIN sent :
       /\ IsNoMatch(delivered[i].result)
       /\ sent[j].id = delivered[i].id
       /\ sent[j].method \in {"move_left", "move_right"}

\* ------------------------------------------------------------------------
\* C27: start() while a job runs stops that job and launches nothing; the
\* exit of the job launches one server and clears restart_pending, however
\* often start() was called in between; there are never two live jobs
\* ------------------------------------------------------------------------
Running == server_job_id \in DOMAIN jobs

C27_OneRestart ==
  [][/\ Cardinality(DOMAIN jobs') <= 1
     /\ (Running /\ restart_pending) => jobs[server_job_id] = "stopping"
     \* start() while the job runs: the job is stopped, nothing is launched
     /\ (Running /\ restart_pending' /\ DOMAIN jobs' = DOMAIN jobs) =>
          launches' = launches
     \* the exit of the job: one launch if a restart is pending, none otherwise
     /\ (Running /\ server_job_id \notin DOMAIN jobs') =>
          IF restart_pending
          THEN launches' = launches + 1 /\ ~restart_pending'
          ELSE launches' = launches /\ ~is_running'
     /\ launches' # launches => launches' = launches + 1 /\ ~restart_pending'
    ]_vars

\* the second job was asked to stop and its exit will start the third
C27_Witness ==
  /\ restart_pending
  /\ launches = 2
  /\ Running /\ jobs[server_job_id] = "stopping"

\* ------------------------------------------------------------------------
\* C28: after a launch that failed the plugin is not running: is_running()
\* is true only while server_job_id is a job, and restart_pending is set
\* only while there is a job whose exit will come
\* ------------------------------------------------------------------------
C28_FailedLaunchNotRunning ==
  /\ is_running => Running
  /\ restart_pending => Running

\* ------------------------------------------------------------------------
\* C29: from the moment the server has read the lines for a request until
\* the host applies the edit of its response, the buffer stays as it is
\* ------------------------------------------------------------------------
C29_BufferStableInFlight ==
  [][\A i \in DOMAIN scheduled :
        (scheduled[i].result.type = "success" /\ ~(Handling /\ i = 1)) =>
          buffer' = buffer
    ]_vars

\* ------------------------------------------------------------------------
\* C30: when delete_function succeeds, the source it returns is the source
\* it was given without the text of original_range, and with every other
\* character in place
\* ------------------------------------------------------------------------
C30_SourceWithoutRange ==
  (phase = "served" /\ request.method = "delete_function" /\ IsSuccess(response)) =>
    LET original_source == SourceText(buffer.tokens)
        from == OffsetOf(original_source, response.original_range.start)
        to   == OffsetOf(original_source, response.original_range.end)
    IN response.source =
         SubSeq(original_source, 1, from) \o response.mod
           \o SubSeq(original_source, to + 1, Len(original_source))

====
